---- MODULE Spec2Model ----
(***************************************************************************)
(* State-machine model of the tile content pipeline of the engine:         *)
(*   - Scene/Vector3DTileGeometry.js  (decode and assembly of vector       *)
(*     geometry through the createVectorTileGeometries task processor),    *)
(*   - Scene/Composite3DTileContent.js (the composite content).            *)
(* JavaScript objects are records whose fields keep the source's names;    *)
(* the value undefined is the string Undefined.                            *)
(***************************************************************************)
EXTENDS Integers, Sequences, FiniteSets, TLC

VARIABLES
  options,     \* the options object given to the Vector3DTileGeometry constructor
  geometries,  \* the fields of the Vector3DTileGeometry instance
  task,        \* createVerticesTaskProcessor as seen by this instance
  primitive,   \* the Vector3DTilePrimitive objects built / destroyed / updated
  call,        \* the last call made on the Vector3DTileGeometry and its outcome
  composite,   \* the fields of the Composite3DTileContent instance
  contents,    \* the inner contents of the composite (its children)
  ccall,       \* the last call made on the composite and its outcome
  decode,      \* a call of Composite3DTileContent.fromTileType and its promises
  resources,   \* the resources of two inner tiles of nested composites
  propertyArray \* a PositionPropertyArray, its properties and its listener

vars ==
  <<options, geometries, task, primitive, call, composite, contents, ccall,
    decode, resources, propertyArray>>

geometryVars == <<options, geometries, task, primitive, call>>
compositeVars == <<composite, contents, ccall>>
otherVars == <<resources, propertyArray>>

\* ------------------------------------------------------------------ bounds
\* shape instances in one tile, over all shape kinds
MaxShapes == 2
\* batch ids are 0 and MaxBatchId
MaxBatchId == 1
\* how many times scheduleTask may answer "no slot" to this instance
MaxDeferrals == 2
\* composites nested in composites, counted from the outermost
MaxNesting == 3
\* items of the array given to a PositionPropertyArray
MaxItems == 2
\* inner contents of one composite
MaxChildren == 2

\* The JavaScript value undefined; a field or variable that may be undefined
\* holds Undefined or Some(value).
Undefined == {}

Some(value) == {value}

Get(option) == CHOOSE value \in option : TRUE

defined(value) == value # Undefined

Min(a, b) == IF a < b THEN a ELSE b

\* The element of a one-element set.  The({body : x \in {e}}) is body with x
\* naming the value of e, computed once.
The(set) == CHOOSE value \in set : TRUE

\* ------------------------------------------------- collaborators (Core)
\* Cesium3DTileBatchTable.getColor(batchId): the style colour of a batch id,
\* as four bytes; every batch id has its own colour.
getColor(batchId) ==
  [red |-> batchId, green |-> 255 - batchId, blue |-> 7, alpha |-> 255]

\* Color.toRgba(): the four bytes packed into one uint32, written here as its
\* bytes from the least significant one (a uint32 exceeds the checker's
\* integers).
toRgba(color) == <<color.red, color.green, color.blue, color.alpha>>

\* TypedArray.prototype.slice(): the same elements in new storage.
slice(array) == Some([Get(array) EXCEPT !.buffer = "copy"])

\* A typed array handed in by the caller: a view of the caller's storage.
SuppliedArray(data) == Some([buffer |-> "supplied", data |-> data])

\* The batch-id arrays a caller may supply for one shape kind.
BatchIdArrays ==
  UNION {[1..n -> {0, MaxBatchId}] : n \in 1..MaxShapes}

BatchIdOptions == {Undefined} \cup {Some(ids) : ids \in BatchIdArrays}

Length(ids) == IF defined(ids) THEN Len(Get(ids)) ELSE 0

\* Cartesian3 values (x, y, z) and the Matrix4 a caller may pass.
Centers == {Undefined, Some(<<1, 2, 3>>)}
BoundingVolumes == {Undefined, Some([center |-> <<4, 5, 6>>, radius |-> 9])}
ModelMatrices ==
  {Some(<<11, 12, 13, 14, 21, 22, 23, 24, 31, 32, 33, 34, 41, 42, 43, 44>>)}
CartesianZero == <<0, 0, 0>>

\* The options a caller may construct a Vector3DTileGeometry with: each shape
\* kind is absent, or populated with its parameters and one batch id per shape.
OptionSets ==
  {o \in [boxBatchIds : BatchIdOptions,
          cylinderBatchIds : BatchIdOptions,
          ellipsoidBatchIds : BatchIdOptions,
          sphereBatchIds : BatchIdOptions,
          center : Centers,
          modelMatrix : ModelMatrices,
          boundingVolume : BoundingVolumes] :
     Length(o.boxBatchIds) + Length(o.cylinderBatchIds)
       + Length(o.ellipsoidBatchIds) + Length(o.sphereBatchIds) <= MaxShapes}

\* The batch-id array (Uint16Array) supplied for a shape kind.
BatchIds(ids) ==
  IF defined(ids) THEN SuppliedArray(Get(ids)) ELSE Undefined

\* The parameter array (Float32Array) supplied for a shape kind.
Shapes(ids) ==
  IF defined(ids) THEN SuppliedArray([i \in 1..Len(Get(ids)) |-> "shape"])
  ELSE Undefined

\* function Vector3DTileGeometry(options)
Vector3DTileGeometry(o) ==
  [ _boxes |-> Shapes(o.boxBatchIds),
    _boxBatchIds |-> BatchIds(o.boxBatchIds),
    _cylinders |-> Shapes(o.cylinderBatchIds),
    _cylinderBatchIds |-> BatchIds(o.cylinderBatchIds),
    _ellipsoids |-> Shapes(o.ellipsoidBatchIds),
    _ellipsoidBatchIds |-> BatchIds(o.ellipsoidBatchIds),
    _spheres |-> Shapes(o.sphereBatchIds),
    _sphereBatchIds |-> BatchIds(o.sphereBatchIds),
    _sphere |-> Undefined,
    _modelMatrix |-> o.modelMatrix,
    _batchTable |-> Some("batchTable"),
    _boundingVolume |-> o.boundingVolume,
    _center |-> IF defined(o.center) THEN o.center
                ELSE IF defined(o.boundingVolume)
                  THEN Some(Get(o.boundingVolume).center)
                ELSE Some(CartesianZero),
    _boundingVolumes |-> Undefined,
    _batchedIndices |-> Undefined,
    _indices |-> Undefined,
    _indexOffsets |-> Undefined,
    _indexCounts |-> Undefined,
    _positions |-> Undefined,
    _vertexBatchIds |-> Undefined,
    _batchIds |-> Undefined,
    _batchTableColors |-> Undefined,
    _packedBuffer |-> Undefined,
    _ready |-> FALSE,
    _promise |-> Undefined,
    _error |-> Undefined,
    _verticesPromise |-> Undefined,
    _primitive |-> Undefined,
    destroyed |-> FALSE ]

\* The length of a typed array that is defined.
Length1(array) == Len(Get(array).data)

\* Cartesian3.packedLength and Matrix4.packedLength
Cartesian3PackedLength == 3
Matrix4PackedLength == 16

\* new Float64Array(length): length doubles, all 0.
Float64Array(length) == [k \in 1..length |-> 0]

\* Cartesian3.pack(value, array, startingIndex): x, y and z are written at
\* startingIndex, startingIndex + 1 and startingIndex + 2.
Cartesian3Pack(value, array, startingIndex) ==
  [k \in DOMAIN array |->
     IF k - 1 \in startingIndex..(startingIndex + Cartesian3PackedLength - 1)
       THEN value[k - startingIndex]
     ELSE array[k]]

\* Matrix4.pack(value, array, startingIndex): the 16 components are written
\* from startingIndex on, in the order the matrix stores them.
Matrix4Pack(value, array, startingIndex) ==
  [k \in DOMAIN array |->
     IF k - 1 \in startingIndex..(startingIndex + Matrix4PackedLength - 1)
       THEN value[k - startingIndex]
     ELSE array[k]]

\* A packBuffer that writes the model matrix first and the centre after it.
packBufferMatrixFirst(g) ==
  Cartesian3Pack(Get(g._center),
                 Matrix4Pack(Get(g._modelMatrix),
                             Float64Array(Matrix4PackedLength
                                          + Cartesian3PackedLength), 0),
                 Matrix4PackedLength)

\* function packBuffer(geometries): the centre, then the model matrix.
packBuffer(g) ==
  Matrix4Pack(Get(g._modelMatrix),
              Cartesian3Pack(Get(g._center),
                             Float64Array(Matrix4PackedLength
                                          + Cartesian3PackedLength), 0),
              Cartesian3PackedLength)

\* slice() of the array of a populated shape kind (shapes is the kind's
\* parameter array, array the one copied); an absent kind is left alone.
copyIfDefined(shapes, array) == IF defined(shapes) THEN slice(array) ELSE array

\* The local variables of createPrimitive before its copying block.
createPrimitiveLocals(g) ==
  [boxes |-> g._boxes, boxBatchIds |-> g._boxBatchIds,
   cylinders |-> g._cylinders, cylinderBatchIds |-> g._cylinderBatchIds,
   ellipsoids |-> g._ellipsoids, ellipsoidBatchIds |-> g._ellipsoidBatchIds,
   spheres |-> g._spheres, sphereBatchIds |-> g._sphereBatchIds,
   batchTableColors |-> g._batchTableColors,
   packedBuffer |-> g._packedBuffer]

\* A colour table filled by the batch id of each shape instance instead of by
\* the loop index.
createBatchTableColorsByBatchId(g) ==
  LET ids == (IF defined(g._boxes) THEN Get(g._boxBatchIds).data ELSE <<>>)
             \o (IF defined(g._cylinders) THEN Get(g._cylinderBatchIds).data ELSE <<>>)
             \o (IF defined(g._ellipsoids) THEN Get(g._ellipsoidBatchIds).data ELSE <<>>)
             \o (IF defined(g._spheres) THEN Get(g._sphereBatchIds).data ELSE <<>>)
  IN [i \in 1..Len(ids) |-> toRgba(getColor(ids[i]))]

\* The colour table of createPrimitive: one entry per shape instance, entry i
\* being batchTable.getColor(i).toRgba().
createBatchTableColors(g) ==
  LET length == (IF defined(g._boxes) THEN Length1(g._boxBatchIds) ELSE 0)
                + (IF defined(g._cylinders) THEN Length1(g._cylinderBatchIds) ELSE 0)
                + (IF defined(g._ellipsoids) THEN Length1(g._ellipsoidBatchIds) ELSE 0)
                + (IF defined(g._spheres) THEN Length1(g._sphereBatchIds) ELSE 0)
  IN [i \in 1..length |-> toRgba(getColor(i - 1))]

\* The copying block of createPrimitive (taken when no colour table exists
\* yet): copies each populated shape kind and its batch ids, fills the colour
\* table and packs the context.  Returns the instance and the locals.
createPrimitiveCopy(g) ==
  IF defined(g._batchTableColors) THEN [g |-> g, l |-> createPrimitiveLocals(g)]
  ELSE
    LET copies ==
          [boxes |-> copyIfDefined(g._boxes, g._boxes),
           boxBatchIds |-> copyIfDefined(g._boxes, g._boxBatchIds),
           cylinders |-> copyIfDefined(g._cylinders, g._cylinders),
           cylinderBatchIds |-> copyIfDefined(g._cylinders, g._cylinderBatchIds),
           ellipsoids |-> copyIfDefined(g._ellipsoids, g._ellipsoids),
           ellipsoidBatchIds |->
             copyIfDefined(g._ellipsoids, g._ellipsoidBatchIds),
           spheres |-> copyIfDefined(g._spheres, g._spheres),
           sphereBatchIds |-> copyIfDefined(g._spheres, g._sphereBatchIds),
           batchTableColors |-> Some(createBatchTableColors(g)),
           packedBuffer |-> Some(packBuffer(g))]
    IN \* the copy of the spheres is stored in the field _sphere, not _spheres
       [g |-> [g EXCEPT
                 !._boxes = copyIfDefined(g._boxes, @),
                 !._boxBatchIds = copyIfDefined(g._boxes, @),
                 !._cylinders = copyIfDefined(g._cylinders, @),
                 !._cylinderBatchIds = copyIfDefined(g._cylinders, @),
                 !._ellipsoids = copyIfDefined(g._ellipsoids, @),
                 !._ellipsoidBatchIds = copyIfDefined(g._ellipsoids, @),
                 !._sphere = IF defined(g._spheres) THEN slice(g._spheres) ELSE @,
                 !._sphereBatchIds = copyIfDefined(g._spheres, @),
                 !._batchTableColors = Some(createBatchTableColors(g)),
                 !._packedBuffer = Some(packBuffer(g))],
        l |-> copies]

\* The storage (ArrayBuffer) of a typed array that is defined.
Buffer(array) == Some(Get(array).buffer)

\* The parameters object createPrimitive hands to scheduleTask.
taskParameters(l) ==
  [boxes |-> IF defined(l.boxes) THEN Buffer(l.boxes) ELSE Undefined,
   boxBatchIds |-> IF defined(l.boxes) THEN Buffer(l.boxBatchIds) ELSE Undefined,
   cylinders |-> IF defined(l.cylinders) THEN Buffer(l.cylinders) ELSE Undefined,
   cylinderBatchIds |->
     IF defined(l.cylinders) THEN Buffer(l.cylinderBatchIds) ELSE Undefined,
   ellipsoids |-> IF defined(l.ellipsoids) THEN Buffer(l.ellipsoids) ELSE Undefined,
   ellipsoidBatchIds |->
     IF defined(l.ellipsoids) THEN Buffer(l.ellipsoidBatchIds) ELSE Undefined,
   spheres |-> IF defined(l.spheres) THEN Buffer(l.spheres) ELSE Undefined,
   sphereBatchIds |->
     IF defined(l.spheres) THEN Buffer(l.sphereBatchIds) ELSE Undefined,
   batchTableColors |-> Get(l.batchTableColors),
   packedBuffer |-> Get(l.packedBuffer)]

\* createPrimitive returning a promise also when the task was postponed.
createPrimitivePostponedPromise(g, slot) ==
  IF defined(g._primitive) \/ defined(g._verticesPromise) THEN
    [g |-> g, return |-> Undefined, parameters |-> Undefined]
  ELSE
    [g |-> [createPrimitiveCopy(g).g EXCEPT !._verticesPromise = Some("promise")],
     return |-> Some("promise"),
     parameters |-> Some(taskParameters(createPrimitiveCopy(g).l))]

\* function createPrimitive(geometries), up to the return of its promise.
\* slot is the answer of createVerticesTaskProcessor.scheduleTask: TRUE when
\* the task is accepted (a promise is returned), FALSE when it is postponed.
\* Returns the instance, the returned value and the parameters submitted
\* (Undefined when scheduleTask was not called).
createPrimitive(g, slot) ==
  IF defined(g._primitive) THEN
    [g |-> g, return |-> Undefined, parameters |-> Undefined]
  ELSE IF defined(g._verticesPromise) THEN
    [g |-> g, return |-> Undefined, parameters |-> Undefined]
  ELSE
    LET c == createPrimitiveCopy(g)
        verticesPromise == IF slot THEN Some("promise") ELSE Undefined
    IN [g |-> [c.g EXCEPT !._verticesPromise = verticesPromise],
        return |-> verticesPromise,
        parameters |-> Some(taskParameters(c.l))]

\* --------------------------------------------------- unpacking a result
\* packedBuffer[offset] of a Float64Array: undefined past the end.
read(packedBuffer, offset) ==
  IF offset < Len(packedBuffer) THEN Some(packedBuffer[offset + 1]) ELSE Undefined

\* new Array(length) raises a RangeError for a negative length.
InvalidArrayLength(length) == defined(length) /\ Get(length) < 0

\* How often a loop "for (i = 0; i < length; ++i)" runs: never for undefined.
Iterations(length) == IF defined(length) THEN Get(length) ELSE 0

\* BoundingSphere.unpack(array, startingIndex)
BoundingSphereUnpack(packedBuffer, offset) ==
  [center |-> <<read(packedBuffer, offset), read(packedBuffer, offset + 1),
                read(packedBuffer, offset + 2)>>,
   radius |-> read(packedBuffer, offset + 3)]

\* Color.unpack(array, startingIndex)
ColorUnpack(packedBuffer, offset) ==
  [red |-> read(packedBuffer, offset), green |-> read(packedBuffer, offset + 1),
   blue |-> read(packedBuffer, offset + 2), alpha |-> read(packedBuffer, offset + 3)]

BoundingSpherePackedLength == 4
ColorPackedLength == 4

\* new Array(length), before any element is assigned: [undefined] when the
\* length is undefined, else that many empty slots.
NewArray(length) ==
  IF defined(length) THEN [i \in 1..Get(length) |-> Undefined] ELSE <<Undefined>>

\* An unpackBatch that reads the index count before the index offset.
unpackBatchCountFirst(packedBuffer, offset) ==
  LET length == read(packedBuffer, offset + ColorPackedLength + 2)
      first == offset + ColorPackedLength + 3
  IN [length |-> length,
      next |-> first + Iterations(length),
      batch |->
        [color |-> ColorUnpack(packedBuffer, offset),
         offset |-> read(packedBuffer, offset + ColorPackedLength + 1),
         count |-> read(packedBuffer, offset + ColorPackedLength),
         batchIds |->
           IF InvalidArrayLength(length) THEN <<>>
           ELSE IF defined(length)
             THEN [k \in 1..Get(length) |-> read(packedBuffer, first + k - 1)]
           ELSE <<Undefined>>]]

\* One batched-index record at offset: colour, index offset, index count,
\* the length of its batch-id list and the batch ids; next is the offset
\* after it.
unpackBatch(packedBuffer, offset) ==
  LET length == read(packedBuffer, offset + ColorPackedLength + 2)
      first == offset + ColorPackedLength + 3
  IN [length |-> length,
      next |-> first + Iterations(length),
      batch |->
        [color |-> ColorUnpack(packedBuffer, offset),
         offset |-> read(packedBuffer, offset + ColorPackedLength),
         count |-> read(packedBuffer, offset + ColorPackedLength + 1),
         batchIds |->
           IF InvalidArrayLength(length) THEN <<>>
           ELSE IF defined(length)
             THEN [k \in 1..Get(length) |-> read(packedBuffer, first + k - 1)]
           ELSE <<Undefined>>]]

\* The loop of unpackBuffer over the batched-index records, from record
\* number j (1-based) at offset, into the array bis.
RECURSIVE unpackBatchedIndices(_, _, _, _, _)
unpackBatchedIndices(packedBuffer, offset, j, numBatchedIndices, bis) ==
  IF j > numBatchedIndices THEN [threw |-> FALSE, bis |-> bis]
  ELSE
    The({ IF InvalidArrayLength(r.length) THEN [threw |-> TRUE, bis |-> bis]
          ELSE The({ unpackBatchedIndices(packedBuffer, r.next, j + 1,
                                          numBatchedIndices, filled)
                     : filled \in {[bis EXCEPT ![j] = Some(r.batch)]} })
          : r \in {unpackBatch(packedBuffer, offset)} })

\* The bounding spheres read by unpackBuffer.
unpackBoundingVolumes(packedBuffer, numBVS) ==
  IF defined(numBVS)
    THEN [i \in 1..Get(numBVS) |->
            Some(BoundingSphereUnpack(packedBuffer,
                                      2 + (i - 1) * BoundingSpherePackedLength))]
  ELSE <<Undefined>>

\* function unpackBuffer(geometries, packedBuffer).  Returns the instance,
\* whether a RangeError was raised, and the returned index width.
unpackBuffer(g, packedBuffer) ==
  LET indicesBytesPerElement == read(packedBuffer, 0)
      numBVS == read(packedBuffer, 1)
      offset == 2 + Iterations(numBVS) * BoundingSpherePackedLength
      numBatchedIndices == read(packedBuffer, offset)
  IN IF InvalidArrayLength(numBVS)
       THEN [g |-> g, threw |-> TRUE, return |-> Undefined]
     ELSE IF InvalidArrayLength(numBatchedIndices)
       THEN [g |-> [g EXCEPT !._boundingVolumes =
                               Some(unpackBoundingVolumes(packedBuffer, numBVS))],
             threw |-> TRUE, return |-> Undefined]
     ELSE
       The({ [g |-> [g EXCEPT
                       !._boundingVolumes =
                         Some(unpackBoundingVolumes(packedBuffer, numBVS)),
                       !._batchedIndices = Some(u.bis)],
              threw |-> u.threw,
              return |-> indicesBytesPerElement]
             : u \in {unpackBatchedIndices(packedBuffer, offset + 1, 1,
                                           Iterations(numBatchedIndices),
                                           NewArray(numBatchedIndices))} })

\* A finishPrimitive that releases the raw input and keeps the decoded
\* results in the fields of the content.
finishPrimitiveKeepsResults(g) ==
  IF defined(g._primitive) THEN [g |-> g, constructed |-> Undefined]
  ELSE
    [g |-> [g EXCEPT
              !._primitive = Some("primitive"),
              !._boxes = Undefined, !._boxBatchIds = Undefined,
              !._cylinders = Undefined, !._cylinderBatchIds = Undefined,
              !._ellipsoids = Undefined, !._ellipsoidBatchIds = Undefined,
              !._spheres = Undefined, !._sphereBatchIds = Undefined,
              !._center = Undefined, !._modelMatrix = Undefined,
              !._batchTable = Undefined, !._boundingVolume = Undefined,
              !._batchTableColors = Undefined, !._packedBuffer = Undefined,
              !._verticesPromise = Undefined],
     constructed |->
       Some([batchTable |-> g._batchTable, positions |-> g._positions,
             batchIds |-> g._batchIds, vertexBatchIds |-> g._vertexBatchIds,
             indices |-> g._indices, indexOffsets |-> g._indexOffsets,
             indexCounts |-> g._indexCounts,
             batchedIndices |-> g._batchedIndices,
             boundingVolume |-> g._boundingVolume,
             boundingVolumes |-> g._boundingVolumes,
             center |-> g._center])]

\* function finishPrimitive(geometries).  Returns the instance and the options
\* the Vector3DTilePrimitive was constructed with (Undefined when none was).
finishPrimitive(g) ==
  IF defined(g._primitive) THEN [g |-> g, constructed |-> Undefined]
  ELSE
    [g |-> [g EXCEPT
              !._primitive = Some("primitive"),
              !._boxes = Undefined, !._boxBatchIds = Undefined,
              !._cylinders = Undefined, !._cylinderBatchIds = Undefined,
              !._ellipsoids = Undefined, !._ellipsoidBatchIds = Undefined,
              !._spheres = Undefined, !._sphereBatchIds = Undefined,
              !._center = Undefined, !._modelMatrix = Undefined,
              !._batchTable = Undefined, !._boundingVolume = Undefined,
              !._boundingVolumes = Undefined, !._batchedIndices = Undefined,
              !._indices = Undefined, !._indexOffsets = Undefined,
              !._indexCounts = Undefined,
              !._positions = Undefined, !._vertexBatchIds = Undefined,
              !._batchIds = Undefined,
              !._batchTableColors = Undefined, !._packedBuffer = Undefined,
              !._verticesPromise = Undefined],
     constructed |->
       Some([batchTable |-> g._batchTable, positions |-> g._positions,
             batchIds |-> g._batchIds, vertexBatchIds |-> g._vertexBatchIds,
             indices |-> g._indices, indexOffsets |-> g._indexOffsets,
             indexCounts |-> g._indexCounts,
             batchedIndices |-> g._batchedIndices,
             boundingVolume |-> g._boundingVolume,
             boundingVolumes |-> g._boundingVolumes,
             center |-> g._center])]

\* An isDestroyed that destroyObject did not replace.
isDestroyedNever(g) == FALSE

\* Vector3DTileGeometry.prototype.isDestroyed, as destroyObject leaves it.
isDestroyed(g) == g.destroyed

\* destroyObject(object): marks the object destroyed; from then on
\* isDestroyed() returns true and every other function raises a DeveloperError.
destroyObject(g) == [g EXCEPT !.destroyed = TRUE]

\* A typed-array view of a buffer of the worker's result.
View(type, buffer) == Some([type |-> type, buffer |-> buffer])

\* The typed-array views the fulfilment handler makes of the result.
resultViews(g, indicesBytesPerElement, result) ==
  [g EXCEPT
     !._indices = IF indicesBytesPerElement = Some(2)
                    THEN View("Uint16Array", result.indices)
                  ELSE View("Uint32Array", result.indices),
     !._indexOffsets = View("Uint32Array", result.indexOffsets),
     !._indexCounts = View("Uint32Array", result.indexCounts),
     !._positions = View("Float32Array", result.positions),
     !._vertexBatchIds = View("Uint16Array", result.vertexBatchIds),
     !._batchIds = View("Uint16Array", result.batchIds)]

\* A fulfilment handler that does not ask isDestroyed().
thenHandlerNoDestroyedCheck(g, result) ==
  The({ IF u.threw THEN [g |-> u.g, threw |-> TRUE, constructed |-> Undefined]
        ELSE
          The({ The({ [g |-> [f.g EXCEPT !._ready = TRUE], threw |-> FALSE,
                       constructed |-> f.constructed]
                      : f \in {finishPrimitive(g1)} })
                : g1 \in {resultViews(u.g, u.return, result)} })
        : u \in {unpackBuffer(g, result.packedBuffer)} })

\* A fulfilment handler that builds the primitive before it unpacks the result.
thenHandlerFinishFirst(g, result) ==
  IF isDestroyed(g) THEN [g |-> g, threw |-> FALSE, constructed |-> Undefined]
  ELSE
    The({ The({ [g |-> [resultViews(u.g, u.return, result) EXCEPT !._ready = TRUE],
                 threw |-> u.threw, constructed |-> f.constructed]
                : u \in {unpackBuffer(f.g, result.packedBuffer)} })
          : f \in {finishPrimitive(g)} })

\* The fulfilment handler of createPrimitive: verticesPromise.then(...).
\* Returns the instance, whether the handler raised, and the options of the
\* primitive it constructed (Undefined when it constructed none).
thenHandler(g, result) ==
  IF isDestroyed(g) THEN [g |-> g, threw |-> FALSE, constructed |-> Undefined]
  ELSE
    The({ IF u.threw THEN [g |-> u.g, threw |-> TRUE, constructed |-> Undefined]
          ELSE
            The({ The({ [g |-> [f.g EXCEPT !._ready = TRUE], threw |-> FALSE,
                         constructed |-> f.constructed]
                        : f \in {finishPrimitive(g1)} })
                  : g1 \in {resultViews(u.g, u.return, result)} })
          : u \in {unpackBuffer(g, result.packedBuffer)} })

\* A rejection handler that also forgets the request, so that the next update
\* makes a new one.
catchHandlerForgetsRequest(g, error) ==
  IF isDestroyed(g) THEN g
  ELSE [g EXCEPT !._error = Some(error), !._promise = Undefined,
                 !._verticesPromise = Undefined]

\* The rejection handler of createPrimitive: .catch((error) => ...).
catchHandler(g, error) ==
  IF isDestroyed(g) THEN g ELSE [g EXCEPT !._error = Some(error)]

\* A chain with no rejection handler after the fulfilment handler: what the
\* fulfilment handler raises is stored nowhere and is left unhandled.
thenOnly(g, result) ==
  The({ [g |-> t.g, threw |-> t.threw, constructed |-> t.constructed,
         unhandled |-> t.threw]
        : t \in {thenHandler(g, result)} })

\* verticesPromise.then(...).catch(...) when verticesPromise is fulfilled with
\* result: what the fulfilment handler raises goes to the rejection handler.
thenCatch(g, result) ==
  The({ [g |-> IF t.threw THEN catchHandler(t.g, "RangeError") ELSE t.g,
         threw |-> t.threw, constructed |-> t.constructed,
         unhandled |-> FALSE]
        : t \in {thenHandler(g, result)} })

\* An update that forgets the request it has made: it submits on every call
\* made while the content is not ready.
updateForgetsRequest(g, slot) ==
  IF ~g._ready THEN
    The({ [g |-> [c.g EXCEPT !._promise = c.return,
                             !._error = Undefined],
           raised |-> c.g._error,
           parameters |-> c.parameters, primitiveUpdated |-> FALSE]
          : c \in {createPrimitive([g EXCEPT !._verticesPromise = Undefined],
                                   slot)} })
  ELSE [g |-> g, raised |-> Undefined, parameters |-> Undefined,
        primitiveUpdated |-> TRUE]

\* An update that raises the stored error without clearing it.
updateKeepsError(g, slot) ==
  IF ~g._ready THEN
    The({ [g |-> [c.g EXCEPT !._promise = c.return],
           raised |-> c.g._error,
           parameters |-> c.parameters, primitiveUpdated |-> FALSE]
          : c \in {IF ~defined(g._promise)
                     THEN createPrimitive(g, slot)
                   ELSE [g |-> g, return |-> g._promise,
                         parameters |-> Undefined]} })
  ELSE [g |-> g, raised |-> Undefined, parameters |-> Undefined,
        primitiveUpdated |-> TRUE]

\* An update that marks the content ready as soon as it holds the promise of
\* the request.
updateReadyWhenRequested(g, slot) ==
  IF ~g._ready THEN
    The({ [g |-> [c.g EXCEPT !._promise = c.return,
                             !._ready = defined(c.return),
                             !._error = Undefined],
           raised |-> c.g._error,
           parameters |-> c.parameters, primitiveUpdated |-> FALSE]
          : c \in {IF ~defined(g._promise)
                     THEN createPrimitive(g, slot)
                   ELSE [g |-> g, return |-> g._promise,
                         parameters |-> Undefined]} })
  ELSE [g |-> g, raised |-> Undefined, parameters |-> Undefined,
        primitiveUpdated |-> TRUE]

\* Vector3DTileGeometry.prototype.update.  Returns the instance, the error it
\* raised (Undefined when it returned), the parameters it submitted to
\* scheduleTask (Undefined when it did not call it) and whether it called
\* update on the primitive.
update(g, slot) ==
  IF ~g._ready THEN
    LET c == IF ~defined(g._promise)
               THEN createPrimitive(g, slot)
             ELSE [g |-> g, return |-> g._promise, parameters |-> Undefined]
        g1 == [c.g EXCEPT !._promise = c.return]
    IN IF defined(g1._error)
         THEN [g |-> [g1 EXCEPT !._error = Undefined], raised |-> g1._error,
               parameters |-> c.parameters, primitiveUpdated |-> FALSE]
       ELSE [g |-> g1, raised |-> Undefined,
             parameters |-> c.parameters, primitiveUpdated |-> FALSE]
  ELSE [g |-> g, raised |-> Undefined, parameters |-> Undefined,
        primitiveUpdated |-> TRUE]

\* A call of a function of the primitive that is skipped, without an error,
\* while the primitive is undefined.
callPrimitiveIfDefined(g, f, arguments) ==
  IF defined(g._primitive)
    THEN [outcome |-> "forwarded", received |-> Some([f |-> f, arguments |-> arguments])]
  ELSE [outcome |-> "returned", received |-> Undefined]

\* this._primitive.f(...arguments): the call of a function of the primitive.
\* Raises a TypeError while the primitive is undefined; otherwise the
\* primitive receives the call.
callPrimitive(g, f, arguments) ==
  IF defined(g._primitive)
    THEN [outcome |-> "forwarded", received |-> Some([f |-> f, arguments |-> arguments])]
  ELSE [outcome |-> "TypeError", received |-> Undefined]

\* Vector3DTileGeometry.prototype.createFeatures, applyDebugSettings,
\* applyStyle and updateCommands: the outcome of the call and the call the
\* primitive received.
createFeatures(g, content, features) ==
  callPrimitive(g, "createFeatures", <<content, features>>)
applyDebugSettings(g, enabled, color) ==
  callPrimitive(g, "applyDebugSettings", <<enabled, color>>)
applyStyle(g, style, features) ==
  callPrimitive(g, "applyStyle", <<style, features>>)
updateCommands(g, batchId, color) ==
  callPrimitive(g, "updateCommands", <<batchId, color>>)

\* A destroy that leaves the primitive alone.
destroyLeavesPrimitive(g) ==
  [g |-> destroyObject(g), primitiveDestroyed |-> FALSE]

\* Vector3DTileGeometry.prototype.destroy.  Returns the instance and whether
\* it destroyed the primitive.
destroy(g) ==
  [g |-> destroyObject([g EXCEPT !._primitive = Undefined]),
   primitiveDestroyed |-> defined(g._primitive)]

\* --------------------------------------------------------- the getters
\* What the primitive reports of itself when it is asked.
PrimitiveReports ==
  [trianglesLength : {12, 24}, geometryByteLength : {288}]

\* A trianglesLength that reports a length without testing that the
\* primitive exists.
trianglesLengthUnguarded(g, reports) == reports.trianglesLength

\* trianglesLength (getter)
trianglesLength(g, reports) ==
  IF defined(g._primitive) THEN reports.trianglesLength ELSE 0

\* geometryByteLength (getter)
geometryByteLength(g, reports) ==
  IF defined(g._primitive) THEN reports.geometryByteLength ELSE 0

\* ready (getter)
getReady(g) == g._ready

\* ------------------------------------------- the vector geometry machine
\* The results the worker may post back: the packed buffer (index width,
\* bounding spheres, batched-index records) and the other buffers.
PackedResults ==
  { <<2, 1, 0, 0, 0, 5, 1, 1, 0, 0, 1, 0, 3, 1, 0>>,
    <<4, 0, 2, 1, 0, 0, 1, 0, 3, 2, 0, 1, 0, 1, 0, 1, 3, 3, 1, 1>>,
    <<2, 2, 0, 0, 0, 5>>,
    <<2, 1, 0, 0, 0, 5, -1>> }

WorkerResults ==
  {[packedBuffer |-> packed, indices |-> "indices",
    indexOffsets |-> "indexOffsets", indexCounts |-> "indexCounts",
    positions |-> "positions", vertexBatchIds |-> "vertexBatchIds",
    batchIds |-> "batchIds"] : packed \in PackedResults}

\* No nested resources are followed, and there is no PositionPropertyArray.
NoResources == resources = Undefined
NoPropertyArray == propertyArray = Undefined

\* The composite is not part of the vector geometry machine.
NoComposite ==
  /\ composite = [_ready |-> FALSE, destroyed |-> FALSE]
  /\ contents = <<>>
  /\ ccall = [op |-> "none"]
  /\ decode = Undefined

\* A Vector3DTileGeometry was constructed with options.
GeometryInit ==
  /\ options \in OptionSets
  /\ geometries = Vector3DTileGeometry(options)
  /\ task = [state |-> "idle", calls |-> 0, accepted |-> 0, deferrals |-> 0,
             parameters |-> Undefined, result |-> Undefined,
             settledDestroyed |-> FALSE, thenThrew |-> FALSE,
             unhandled |-> FALSE]
  /\ primitive = [constructed |-> 0, options |-> Undefined, destroyed |-> 0]
  /\ call = [op |-> "none", outcome |-> "none", scheduled |-> FALSE,
             arguments |-> <<>>, received |-> Undefined,
             returned |-> Undefined, sinceSettled |-> 0]

Init ==
  /\ GeometryInit
  /\ NoComposite
  /\ NoResources
  /\ NoPropertyArray

\* A counter that stops at limit.
Count(n, limit) == Min(n + 1, limit)

\* createVerticesTaskProcessor.scheduleTask was called with parameters and
\* answered slot.
scheduleTask(t, parameters, slot) ==
  [t EXCEPT !.calls = Count(@, MaxDeferrals + 2),
            !.accepted = IF slot THEN Count(@, 2) ELSE @,
            !.deferrals = IF slot THEN @ ELSE Count(@, MaxDeferrals),
            !.state = IF slot THEN "pending" ELSE @,
            !.parameters = parameters]

\* A frame: the owner calls update(frameState).
Update ==
  /\ \E slot \in BOOLEAN :
       /\ slot \/ task.deferrals < MaxDeferrals
       /\ IF isDestroyed(geometries) THEN
            /\ call' = [call EXCEPT !.op = "update",
                                    !.outcome = "DeveloperError",
                                    !.arguments = <<>>,
                                    !.received = Undefined,
                                    !.scheduled = FALSE]
            /\ UNCHANGED <<geometries, task, primitive>>
          ELSE
            \E u \in {update(geometries, slot)} :
               /\ geometries' = u.g
               /\ task' = IF defined(u.parameters)
                            THEN scheduleTask(task, u.parameters, slot)
                          ELSE task
               /\ call' = [op |-> "update",
                           arguments |-> <<>>, received |-> Undefined,
                           returned |-> call.returned,
                           outcome |-> IF defined(u.raised) THEN Get(u.raised)
                                       ELSE "returned",
                           scheduled |-> defined(u.parameters),
                           sinceSettled |->
                             IF task.state \in {"resolved", "rejected"}
                               THEN Count(call.sinceSettled, 2)
                             ELSE call.sinceSettled]
               /\ UNCHANGED primitive
  /\ UNCHANGED <<options, composite, contents, ccall, decode, otherVars>>

\* The owner calls destroy().
Destroy ==
  /\ IF isDestroyed(geometries) THEN
       /\ call' = [call EXCEPT !.op = "destroy", !.outcome = "DeveloperError",
                               !.arguments = <<>>, !.received = Undefined,
                               !.scheduled = FALSE]
       /\ UNCHANGED <<geometries, primitive>>
     ELSE
       \E d \in {destroy(geometries)} :
          /\ geometries' = d.g
          /\ primitive' = IF d.primitiveDestroyed
                            THEN [primitive EXCEPT !.destroyed = Count(@, 2)]
                          ELSE primitive
          /\ call' = [call EXCEPT !.op = "destroy", !.outcome = "returned",
                                  !.arguments = <<>>, !.received = Undefined,
                                  !.scheduled = FALSE]
  /\ UNCHANGED <<options, task, composite, contents, ccall, decode, otherVars>>

\* The worker posts a result: the promise of scheduleTask is fulfilled and its
\* handlers run (an error raised by the fulfilment handler goes to the
\* rejection handler).
WorkerResolve ==
  /\ task.state = "pending"
  /\ \E result \in WorkerResults :
       \E t \in {thenCatch(geometries, result)} :
          /\ geometries' = t.g
          /\ primitive' = IF defined(t.constructed)
                            THEN [primitive EXCEPT
                                    !.constructed = Count(@, 2),
                                    !.options = t.constructed]
                          ELSE primitive
          /\ task' = [task EXCEPT !.state = "resolved",
                                  !.result = Some(result),
                                  !.settledDestroyed = isDestroyed(geometries),
                                  !.thenThrew = t.threw,
                                  !.unhandled = t.unhandled]
  /\ UNCHANGED <<options, call, composite, contents, ccall, decode, otherVars>>

\* The worker fails: the promise of scheduleTask is rejected.
WorkerReject ==
  /\ task.state = "pending"
  /\ geometries' = catchHandler(geometries, "WorkerError")
  /\ task' = [task EXCEPT !.state = "rejected",
                          !.settledDestroyed = isDestroyed(geometries)]
  /\ UNCHANGED <<options, primitive, call, composite, contents, ccall, decode, otherVars>>

\* The owner calls createFeatures(content, features).
CreateFeatures ==
  /\ \E c \in {IF isDestroyed(geometries)
                 THEN [outcome |-> "DeveloperError", received |-> Undefined]
               ELSE createFeatures(geometries, "content", "features")} :
       call' = [call EXCEPT !.op = "createFeatures",
                            !.outcome = c.outcome,
                            !.arguments = <<"content", "features">>,
                            !.received = c.received,
                            !.scheduled = FALSE]
  /\ UNCHANGED <<options, geometries, task, primitive, composite, contents,
                 ccall, decode, otherVars>>

\* The owner calls applyDebugSettings(enabled, color).
ApplyDebugSettings ==
  /\ \E c \in {IF isDestroyed(geometries)
                 THEN [outcome |-> "DeveloperError", received |-> Undefined]
               ELSE applyDebugSettings(geometries, "enabled", "color")} :
       call' = [call EXCEPT !.op = "applyDebugSettings",
                            !.outcome = c.outcome,
                            !.arguments = <<"enabled", "color">>,
                            !.received = c.received,
                            !.scheduled = FALSE]
  /\ UNCHANGED <<options, geometries, task, primitive, composite, contents,
                 ccall, decode, otherVars>>

\* The owner calls applyStyle(style, features).
ApplyStyle ==
  /\ \E c \in {IF isDestroyed(geometries)
                 THEN [outcome |-> "DeveloperError", received |-> Undefined]
               ELSE applyStyle(geometries, "style", "features")} :
       call' = [call EXCEPT !.op = "applyStyle",
                            !.outcome = c.outcome,
                            !.arguments = <<"style", "features">>,
                            !.received = c.received,
                            !.scheduled = FALSE]
  /\ UNCHANGED <<options, geometries, task, primitive, composite, contents,
                 ccall, decode, otherVars>>

\* The owner calls updateCommands(batchId, color).
UpdateCommands ==
  /\ \E c \in {IF isDestroyed(geometries)
                 THEN [outcome |-> "DeveloperError", received |-> Undefined]
               ELSE updateCommands(geometries, "batchId", "color")} :
       call' = [call EXCEPT !.op = "updateCommands",
                            !.outcome = c.outcome,
                            !.arguments = <<"batchId", "color">>,
                            !.received = c.received,
                            !.scheduled = FALSE]
  /\ UNCHANGED <<options, geometries, task, primitive, composite, contents,
                 ccall, decode, otherVars>>

Next ==
  \/ Update
  \/ Destroy
  \/ WorkerResolve
  \/ WorkerReject
  \/ CreateFeatures
  \/ ApplyDebugSettings
  \/ ApplyStyle
  \/ UpdateCommands

Spec == Init /\ [][Next]_vars

\* ------------------------------------ the vector geometry and its getters
\* A content of boxes only.
LengthInit ==
  /\ GeometryInit
  /\ options.cylinderBatchIds = Undefined
  /\ options.ellipsoidBatchIds = Undefined
  /\ options.sphereBatchIds = Undefined
  /\ NoComposite
  /\ NoResources
  /\ NoPropertyArray

\* The owner reads trianglesLength or geometryByteLength.
ReadLengths ==
  /\ \E reports \in PrimitiveReports :
       \E got \in {[op |-> "trianglesLength",
                     returned |-> trianglesLength(geometries, reports)],
                    [op |-> "geometryByteLength",
                     returned |-> geometryByteLength(geometries, reports)]} :
          call' = [call EXCEPT !.op = got.op, !.outcome = "returned",
                               !.arguments = <<>>, !.received = Undefined,
                               !.scheduled = FALSE,
                               !.returned = Some(got.returned)]
  /\ UNCHANGED <<options, geometries, task, primitive>>
  /\ UNCHANGED <<composite, contents, ccall, decode, otherVars>>

LengthNext ==
  \/ Next
  \/ ReadLengths

LengthSpec == LengthInit /\ [][LengthNext]_vars

\* ------------------------------------------------- the composite content
\* function Composite3DTileContent(tileset, tile, resource, contents): the
\* fields of the instance that change (the contents are the variable contents).
Composite3DTileContent ==
  [_ready |-> FALSE, destroyed |-> FALSE,
   _metadata |-> Undefined, _group |-> Undefined]

\* The inner contents a composite may be constructed with: each is ready or
\* not when the composite is built, and none is destroyed.
ContentSequences ==
  UNION {[1..n -> [ready : BOOLEAN, destroyed : {FALSE}]]
         : n \in 0..MaxChildren}

\* What the update of one inner content does in one frame: it returns with
\* the content ready, returns with it not ready, or raises.
UpdatePlans(n) == [1..n -> {"ready", "unready", "throw"}]

RECURSIVE compositeUpdateLoop(_, _, _, _)

\* An update loop that stops at the first inner content that is not ready.
compositeUpdateLoopWhileReady(cs, plan, i, ready) ==
  IF i > Len(cs) \/ ~ready
    THEN [contents |-> cs, ready |-> ready, threw |-> FALSE, calls |-> <<>>]
  ELSE IF plan[i] = "throw"
    THEN [contents |-> cs, ready |-> ready, threw |-> TRUE, calls |-> <<i>>]
  ELSE
    The({ [looped EXCEPT !.calls = <<i>> \o @]
          : looped \in
              {The({ compositeUpdateLoop(next, plan, i + 1,
                                         ready /\ next[i].ready)
                     : next \in {[cs EXCEPT
                                    ![i].ready = (plan[i] = "ready")]} })} })

\* The loop of Composite3DTileContent.prototype.update from inner content i,
\* with ready the conjunction so far.  Returns the contents, the conjunction,
\* whether an update raised, and the inner contents whose update was called,
\* in call order.
compositeUpdateLoop(cs, plan, i, ready) ==
  IF i > Len(cs)
    THEN [contents |-> cs, ready |-> ready, threw |-> FALSE, calls |-> <<>>]
  ELSE IF plan[i] = "throw"
    THEN [contents |-> cs, ready |-> ready, threw |-> TRUE, calls |-> <<i>>]
  ELSE
    The({ [looped EXCEPT !.calls = <<i>> \o @]
          : looped \in
              {The({ compositeUpdateLoop(next, plan, i + 1,
                                         ready /\ next[i].ready)
                     : next \in {[cs EXCEPT
                                    ![i].ready = (plan[i] = "ready")]} })} })

\* A composite update that takes the conjunction of this frame as its ready
\* flag on every call.
compositeUpdateNotCached(c, looped) ==
  IF looped.threw THEN c ELSE [c EXCEPT !._ready = looped.ready]

\* An end of update that never makes a composite with no inner content
\* ready.
compositeUpdateReadyNeedsContent(c, looped) ==
  IF ~looped.threw /\ ~c._ready /\ looped.ready /\ looped.contents # <<>>
    THEN [c EXCEPT !._ready = TRUE]
  ELSE c

\* An end of update that is reached also when an inner update raised.
compositeUpdateReadyAfterThrow(c, looped) ==
  IF ~c._ready /\ looped.ready
    THEN [c EXCEPT !._ready = TRUE]
  ELSE c

\* The end of Composite3DTileContent.prototype.update, after its loop.
compositeUpdateReady(c, looped) ==
  IF ~looped.threw /\ ~c._ready /\ looped.ready
    THEN [c EXCEPT !._ready = TRUE]
  ELSE c

RECURSIVE compositeApplyLoop(_, _, _, _)

\* A loop that leaves out the inner contents that are not ready.
compositeApplyLoopReady(cs, i, f, arguments) ==
  IF i > Len(cs) THEN <<>>
  ELSE (IF cs[i].ready
          THEN <<[index |-> i, f |-> f, arguments |-> arguments]>>
        ELSE <<>>)
       \o compositeApplyLoop(cs, i + 1, f, arguments)

\* The loop of Composite3DTileContent.prototype.applyStyle and of
\* applyDebugSettings from inner content i: the calls made on the inner
\* contents (which content, which function, which arguments), in call order.
compositeApplyLoop(cs, i, f, arguments) ==
  IF i > Len(cs) THEN <<>>
  ELSE <<[index |-> i, f |-> f, arguments |-> arguments]>>
       \o compositeApplyLoop(cs, i + 1, f, arguments)

\* Composite3DTileContent.prototype.applyStyle(style)
compositeApplyStyle(cs, style) ==
  compositeApplyLoop(cs, 1, "applyStyle", <<style>>)

\* Composite3DTileContent.prototype.applyDebugSettings(enabled, color)
compositeApplyDebugSettings(cs, enabled, color) ==
  compositeApplyLoop(cs, 1, "applyDebugSettings", <<enabled, color>>)

\* Composite3DTileContent.prototype.isDestroyed, as destroyObject leaves it.
compositeIsDestroyed(c) == c.destroyed

RECURSIVE compositeDestroyLoop(_, _)

\* A destroy loop that leaves out the inner contents that are not ready.
compositeDestroyLoopReady(cs, i) ==
  IF i > Len(cs) THEN [contents |-> cs, calls |-> <<>>]
  ELSE IF ~cs[i].ready THEN compositeDestroyLoop(cs, i + 1)
  ELSE
    The({ [looped EXCEPT !.calls = <<i>> \o @]
          : looped \in {compositeDestroyLoop(
                          [cs EXCEPT ![i].destroyed = TRUE], i + 1)} })

\* The loop of Composite3DTileContent.prototype.destroy from inner content i:
\* the contents afterwards and the inner contents whose destroy was called,
\* in call order.
compositeDestroyLoop(cs, i) ==
  IF i > Len(cs) THEN [contents |-> cs, calls |-> <<>>]
  ELSE
    The({ [looped EXCEPT !.calls = <<i>> \o @]
          : looped \in {compositeDestroyLoop(
                          [cs EXCEPT ![i].destroyed = TRUE], i + 1)} })

\* Composite3DTileContent.prototype.destroy: the loop, then destroyObject.
compositeDestroy(c, cs) ==
  The({ [composite |-> destroyObject(c), contents |-> looped.contents,
         calls |-> looped.calls]
        : looped \in {compositeDestroyLoop(cs, 1)} })

\* The ray of a pick, and the points an inner content may report on it.
PickRay == [origin |-> 0]
PickPoints == {2, 5, -2}

\* Cartesian3.distance, for points on one axis.
distance(left, right) == IF left < right THEN right - left ELSE left - right

\* What the inner contents do with one pick: the intersection each reports
\* (Undefined for none) and whether it stores it into the result object it is
\* given (else it returns a new Cartesian3; without a result object it always
\* does).
PickHits(n) == [1..n -> {Undefined} \cup {Some(point) : point \in PickPoints}]
PickWrites(n, resultPassed) ==
  IF resultPassed THEN [1..n -> BOOLEAN] ELSE {[i \in 1..n |-> FALSE]}

\* contents[i].pick(ray, frameState, result): the candidate returned and the
\* value held by the result object afterwards.
contentPick(hit, writes, resultPassed, resultValue) ==
  IF ~defined(hit) THEN [candidate |-> Undefined, resultValue |-> resultValue]
  ELSE IF resultPassed /\ writes
    THEN [candidate |-> Some("result"), resultValue |-> hit]
  ELSE [candidate |-> Some("new"), resultValue |-> resultValue]

\* A pick without the test of the ready flag asks every inner content.
compositePickGuardNone(c) == TRUE

\* The guard of Composite3DTileContent.prototype.pick: only a ready composite
\* asks its inner contents.
compositePickGuard(c) == c._ready

\* The loop of Composite3DTileContent.prototype.pick from inner content i.
\* st holds intersection, minDistance (Undefined for infinity) and the value
\* held by the result object.
RECURSIVE compositePickLoop(_, _, _, _, _, _)
compositePickLoop(n, hits, writes, resultPassed, i, st) ==
  IF i > n THEN st
  ELSE
    The({ IF ~defined(p.candidate)
            THEN compositePickLoop(n, hits, writes, resultPassed, i + 1,
                                   [st EXCEPT !.resultValue = p.resultValue])
          ELSE
            The({ compositePickLoop(n, hits, writes, resultPassed, i + 1, next)
                  : next \in
                      {IF ~defined(st.minDistance)
                          \/ distance(PickRay.origin, Get(hits[i]))
                               < Get(st.minDistance)
                         THEN [intersection |-> p.candidate,
                               minDistance |->
                                 Some(distance(PickRay.origin, Get(hits[i]))),
                               resultValue |-> p.resultValue]
                       ELSE [st EXCEPT !.resultValue = p.resultValue]} })
          : p \in {contentPick(hits[i], writes[i], resultPassed,
                               st.resultValue)} })

\* Composite3DTileContent.prototype.pick(ray, frameState, result).  Returns
\* whether a value other than undefined is returned, the Cartesian3 value it
\* holds (Undefined when the result object was never written), and the inner
\* contents whose pick was called.
compositePick(c, n, hits, writes, resultPassed) ==
  IF ~compositePickGuard(c)
    THEN [defined |-> FALSE, value |-> Undefined, childCalls |-> <<>>]
  ELSE
    The({ IF ~defined(st.intersection)
            THEN [defined |-> FALSE, value |-> Undefined,
                  childCalls |-> [k \in 1..n |-> k]]
          ELSE [defined |-> resultPassed,
                value |-> IF resultPassed THEN st.resultValue ELSE Undefined,
                childCalls |-> [k \in 1..n |-> k]]
          : st \in {compositePickLoop(n, hits, writes, resultPassed, 1,
                                      [intersection |-> Undefined,
                                       minDistance |-> Undefined,
                                       resultValue |-> Undefined])} })

\* A featuresLength that adds up what the inner contents report.
RECURSIVE compositeFeaturesLengthSummed(_)
compositeFeaturesLengthSummed(cs) ==
  IF cs = <<>> THEN 0
  ELSE Head(cs).reports.featuresLength + compositeFeaturesLengthSummed(Tail(cs))

\* The getters featuresLength, pointsLength, trianglesLength,
\* geometryByteLength, texturesByteLength and batchTableByteLength of
\* Composite3DTileContent.prototype, and the getter batchTable, for a
\* composite that holds the inner contents cs.
compositeFeaturesLength(cs) == 0
compositePointsLength(cs) == 0
compositeTrianglesLength(cs) == 0
compositeGeometryByteLength(cs) == 0
compositeTexturesByteLength(cs) == 0
compositeBatchTableByteLength(cs) == 0
compositeBatchTable(cs) == Undefined

\* Composite3DTileContent.prototype.hasProperty(batchId, name)
compositeHasProperty(cs, batchId, name) == FALSE

\* Composite3DTileContent.prototype.getFeature(batchId)
compositeGetFeature(cs, batchId) == Undefined

\* The setter of metadata that forgets the last inner content.
compositeSetMetadataButLast(c, cs, value) ==
  [composite |-> [c EXCEPT !._metadata = value],
   contents |-> [i \in DOMAIN cs |->
                   IF i < Len(cs) THEN [cs[i] EXCEPT !.metadata = value]
                   ELSE cs[i]]]

\* The setter of metadata: stores the value and assigns it to the metadata of
\* every inner content.
compositeSetMetadata(c, cs, value) ==
  [composite |-> [c EXCEPT !._metadata = value],
   contents |-> [i \in DOMAIN cs |-> [cs[i] EXCEPT !.metadata = value]]]

\* The setter of group: stores the value and assigns it to the group of every
\* inner content.
compositeSetGroup(c, cs, value) ==
  [composite |-> [c EXCEPT !._group = value],
   contents |-> [i \in DOMAIN cs |-> [cs[i] EXCEPT !.group = value]]]

\* The vector geometry is not part of the composite machine.
NoGeometry ==
  /\ options = Undefined
  /\ geometries = Undefined
  /\ task = Undefined
  /\ primitive = Undefined
  /\ call = Undefined

\* No composite is being decoded in the composite machine.
NoDecode == decode = Undefined

\* The record of the composite call made in a step: none was made.
NoCompositeCall ==
  [op |-> "none", outcome |-> "none", wasReady |-> FALSE, childCalls |-> <<>>,
   hits |-> <<>>, resultPassed |-> FALSE, defined |-> FALSE, value |-> Undefined,
   read |-> Undefined, assigned |-> Undefined]

\* The record of a call made on a destroyed composite: the function that
\* destroyObject put in place raises a DeveloperError.
CompositeDeveloperError(op) ==
  [NoCompositeCall EXCEPT !.op = op, !.outcome = "DeveloperError"]

\* A Composite3DTileContent was constructed with contents.
CompositeContentInit ==
  /\ contents \in ContentSequences
  /\ composite = Composite3DTileContent
  /\ ccall = NoCompositeCall

CompositeInit ==
  /\ CompositeContentInit
  /\ NoGeometry
  /\ NoDecode
  /\ NoResources
  /\ NoPropertyArray

\* A frame: the tileset calls update(tileset, frameState) on the composite.
CompositeUpdate ==
  /\ IF compositeIsDestroyed(composite) THEN
       /\ ccall' = CompositeDeveloperError("update")
       /\ UNCHANGED <<composite, contents>>
     ELSE
       \E plan \in UpdatePlans(Len(contents)) :
         \E looped \in {compositeUpdateLoop(contents, plan, 1, TRUE)} :
           /\ contents' = looped.contents
           /\ composite' = compositeUpdateReady(composite, looped)
           /\ ccall' = [NoCompositeCall EXCEPT
                          !.op = "update",
                          !.outcome = IF looped.threw THEN "threw"
                                      ELSE "returned",
                          !.wasReady = composite._ready,
                          !.childCalls = looped.calls]
  /\ UNCHANGED geometryVars
  /\ UNCHANGED decode
  /\ UNCHANGED otherVars

\* The scene calls pick(ray, frameState, result), with or without a result.
CompositePick ==
  /\ IF compositeIsDestroyed(composite) THEN
       ccall' = CompositeDeveloperError("pick")
     ELSE
     \E hits \in PickHits(Len(contents)), resultPassed \in BOOLEAN :
     \E writes \in PickWrites(Len(contents), resultPassed) :
       \E picked \in {compositePick(composite, Len(contents), hits, writes,
                                    resultPassed)} :
         ccall' = [NoCompositeCall EXCEPT
                     !.op = "pick",
                     !.outcome = "returned",
                     !.wasReady = composite._ready,
                     !.childCalls = picked.childCalls,
                     !.hits = hits,
                     !.resultPassed = resultPassed,
                     !.defined = picked.defined,
                     !.value = picked.value]
  /\ UNCHANGED <<composite, contents>>
  /\ UNCHANGED geometryVars
  /\ UNCHANGED decode
  /\ UNCHANGED otherVars

\* Between frames an inner content becomes ready, or stops being ready.
ContentReadyChanges ==
  /\ \E i \in 1..Len(contents) :
       /\ ~contents[i].destroyed
       /\ contents' = [contents EXCEPT ![i].ready = ~@]
  /\ ccall' = NoCompositeCall
  /\ UNCHANGED composite
  /\ UNCHANGED geometryVars
  /\ UNCHANGED decode
  /\ UNCHANGED otherVars

\* The tileset calls applyStyle(style) on the composite.
CompositeApplyStyle ==
  /\ ccall' = IF compositeIsDestroyed(composite)
                THEN CompositeDeveloperError("applyStyle")
              ELSE [NoCompositeCall EXCEPT
                      !.op = "applyStyle",
                      !.outcome = "returned",
                      !.wasReady = composite._ready,
                      !.childCalls = compositeApplyStyle(contents, "style")]
  /\ UNCHANGED <<composite, contents>>
  /\ UNCHANGED geometryVars
  /\ UNCHANGED decode
  /\ UNCHANGED otherVars

\* The tileset calls applyDebugSettings(enabled, color) on the composite.
CompositeApplyDebugSettings ==
  /\ ccall' = IF compositeIsDestroyed(composite)
                THEN CompositeDeveloperError("applyDebugSettings")
              ELSE [NoCompositeCall EXCEPT
                      !.op = "applyDebugSettings",
                      !.outcome = "returned",
                      !.wasReady = composite._ready,
                      !.childCalls =
                        compositeApplyDebugSettings(contents, "enabled",
                                                    "color")]
  /\ UNCHANGED <<composite, contents>>
  /\ UNCHANGED geometryVars
  /\ UNCHANGED decode
  /\ UNCHANGED otherVars

\* The tileset calls destroy() on the composite.
CompositeDestroy ==
  /\ IF compositeIsDestroyed(composite) THEN
       /\ ccall' = CompositeDeveloperError("destroy")
       /\ UNCHANGED <<composite, contents>>
     ELSE
       \E destroyed \in {compositeDestroy(composite, contents)} :
         /\ composite' = destroyed.composite
         /\ contents' = destroyed.contents
         /\ ccall' = [NoCompositeCall EXCEPT
                        !.op = "destroy",
                        !.outcome = "returned",
                        !.wasReady = composite._ready,
                        !.childCalls = destroyed.calls]
  /\ UNCHANGED geometryVars
  /\ UNCHANGED decode
  /\ UNCHANGED otherVars

CompositeNext ==
  \/ CompositeUpdate
  \/ CompositePick
  \/ ContentReadyChanges
  \/ CompositeApplyStyle
  \/ CompositeApplyDebugSettings
  \/ CompositeDestroy

CompositeSpec == CompositeInit /\ [][CompositeNext]_vars

\* ------------------------------------ the properties of a composite
\* What an inner content reports of itself: nothing (an empty tile), or
\* features, points, triangles, memory and a batch table.
ContentReports ==
  { [featuresLength |-> 0, pointsLength |-> 0, trianglesLength |-> 0,
     geometryByteLength |-> 0, texturesByteLength |-> 0,
     batchTableByteLength |-> 0, batchTable |-> Undefined,
     hasProperty |-> FALSE, feature |-> Undefined],
    [featuresLength |-> 3, pointsLength |-> 5, trianglesLength |-> 7,
     geometryByteLength |-> 64, texturesByteLength |-> 32,
     batchTableByteLength |-> 16, batchTable |-> Some("batchTable"),
     hasProperty |-> TRUE, feature |-> Some("feature")] }

\* The inner contents of the property machine: each with what it reports and
\* with the metadata and group it was given when it was built, if any.
ReportingContents ==
  UNION {[1..n -> { [ready |-> FALSE, destroyed |-> FALSE, reports |-> r,
                     metadata |-> own, group |-> own]
                    : r \in ContentReports,
                      own \in {Undefined, Some("inner")} }]
         : n \in 0..MaxChildren}

\* The values assigned to metadata and to group.
MetadataValues == {Undefined, Some("metadata1"), Some("metadata2")}
GroupValues == {Undefined, Some("group1"), Some("group2")}

\* The batch ids and names hasProperty and getFeature are asked for.
AskedBatchIds == {0, 1}
AskedNames == {"height"}

\* A Composite3DTileContent was constructed with reporting contents.
PropertyInit ==
  /\ contents \in ReportingContents
  /\ composite = Composite3DTileContent
  /\ ccall = NoCompositeCall
  /\ NoGeometry
  /\ NoDecode
  /\ NoResources
  /\ NoPropertyArray

\* The owner reads the length and memory properties and batchTable.
CompositeReadProperties ==
  /\ ccall' = [NoCompositeCall EXCEPT
                 !.op = "read",
                 !.outcome = "returned",
                 !.wasReady = composite._ready,
                 !.read = Some(
                   [featuresLength |-> compositeFeaturesLength(contents),
                    pointsLength |-> compositePointsLength(contents),
                    trianglesLength |-> compositeTrianglesLength(contents),
                    geometryByteLength |-> compositeGeometryByteLength(contents),
                    texturesByteLength |-> compositeTexturesByteLength(contents),
                    batchTableByteLength |->
                      compositeBatchTableByteLength(contents),
                    batchTable |-> compositeBatchTable(contents)])]
  /\ UNCHANGED <<composite, contents>>
  /\ UNCHANGED geometryVars
  /\ UNCHANGED decode
  /\ UNCHANGED otherVars

\* The owner calls hasProperty(batchId, name).
CompositeHasProperty ==
  /\ \E batchId \in AskedBatchIds, name \in AskedNames :
       ccall' = IF compositeIsDestroyed(composite)
                  THEN CompositeDeveloperError("hasProperty")
                ELSE [NoCompositeCall EXCEPT
                        !.op = "hasProperty",
                        !.outcome = "returned",
                        !.wasReady = composite._ready,
                        !.read = Some([hasProperty |->
                                 compositeHasProperty(contents, batchId, name)])]
  /\ UNCHANGED <<composite, contents>>
  /\ UNCHANGED geometryVars
  /\ UNCHANGED decode
  /\ UNCHANGED otherVars

\* The owner calls getFeature(batchId).
CompositeGetFeature ==
  /\ \E batchId \in AskedBatchIds :
       ccall' = IF compositeIsDestroyed(composite)
                  THEN CompositeDeveloperError("getFeature")
                ELSE [NoCompositeCall EXCEPT
                        !.op = "getFeature",
                        !.outcome = "returned",
                        !.wasReady = composite._ready,
                        !.read = Some([getFeature |->
                                 compositeGetFeature(contents, batchId)])]
  /\ UNCHANGED <<composite, contents>>
  /\ UNCHANGED geometryVars
  /\ UNCHANGED decode
  /\ UNCHANGED otherVars

\* The owner assigns composite.metadata = value.
CompositeSetMetadata ==
  /\ \E value \in MetadataValues :
       \E set \in {compositeSetMetadata(composite, contents, value)} :
         /\ composite' = set.composite
         /\ contents' = set.contents
         /\ ccall' = [NoCompositeCall EXCEPT
                        !.op = "metadata", !.outcome = "returned",
                        !.wasReady = composite._ready,
                        !.assigned = Some(value)]
  /\ UNCHANGED geometryVars
  /\ UNCHANGED decode
  /\ UNCHANGED otherVars

\* The owner assigns composite.group = value.
CompositeSetGroup ==
  /\ \E value \in GroupValues :
       \E set \in {compositeSetGroup(composite, contents, value)} :
         /\ composite' = set.composite
         /\ contents' = set.contents
         /\ ccall' = [NoCompositeCall EXCEPT
                        !.op = "group", !.outcome = "returned",
                        !.wasReady = composite._ready,
                        !.assigned = Some(value)]
  /\ UNCHANGED geometryVars
  /\ UNCHANGED decode
  /\ UNCHANGED otherVars

PropertyNext ==
  \/ CompositeReadProperties
  \/ CompositeHasProperty
  \/ CompositeGetFeature
  \/ CompositeSetMetadata
  \/ CompositeSetGroup
  \/ CompositeUpdate
  \/ CompositeDestroy

PropertySpec == PropertyInit /\ [][PropertyNext]_vars

\* ------------------------------------- the two contents of one tileset
\* A tileset that holds a vector geometry of one box and a composite of at
\* most one inner content, and calls the functions of both in any order.
TilesetInit ==
  /\ GeometryInit
  /\ options.boxBatchIds = Some(<<0>>)
  /\ ~defined(options.cylinderBatchIds)
  /\ ~defined(options.ellipsoidBatchIds)
  /\ ~defined(options.sphereBatchIds)
  /\ defined(options.center)
  /\ defined(options.boundingVolume)
  /\ CompositeContentInit
  /\ Len(contents) <= 1
  /\ NoDecode
  /\ NoResources
  /\ NoPropertyArray

TilesetNext ==
  \/ Next
  \/ CompositeNext

TilesetSpec == TilesetInit /\ [][TilesetNext]_vars

\* ------------------------------------------- decoding a composite tile
\* const sizeOfUint32 = Uint32Array.BYTES_PER_ELEMENT
sizeOfUint32 == 4

\* The magic of a tile as the value of its four bytes: the tile types an
\* inner tile may carry, and those the factory object has a factory for.
TileTypes == {101, 102, 103}
Factories == {101, 102}

\* The byte lengths an inner tile may declare: its 12-byte header alone, or
\* the header and four bytes of payload.
TileByteLengths == {12, 16}

\* An array buffer is the sequence of its 32-bit little-endian words.
\* The words of an inner tile: magic, version, byteLength, payload.
InnerTile(tile) ==
  <<tile.tileType, 1, tile.byteLength>>
  \o [k \in 1..((tile.byteLength - 12) \div sizeOfUint32) |-> 0]

RECURSIVE InnerTiles(_)
InnerTiles(tiles) ==
  IF tiles = <<>> THEN <<>>
  ELSE InnerTile(Head(tiles)) \o InnerTiles(Tail(tiles))

\* The words of a composite tile: magic, version, byteLength, tilesLength,
\* then the inner tiles.
CompositeTile(version, byteLength, tiles) ==
  <<100, version, byteLength, Len(tiles)>> \o InnerTiles(tiles)

\* The words before the composite when fromTileType is given a byteOffset.
Padding(byteOffset) ==
  IF defined(byteOffset)
    THEN [k \in 1..(Get(byteOffset) \div sizeOfUint32) |-> 0]
  ELSE <<>>

\* The inner tiles of the composites to decode.
TileSequences ==
  UNION {[1..n -> [tileType : TileTypes, byteLength : TileByteLengths]]
         : n \in 0..MaxChildren}

\* The byte length of a composite of these inner tiles.
RECURSIVE TotalByteLength(_)
TotalByteLength(tiles) ==
  IF tiles = <<>> THEN 4 * sizeOfUint32
  ELSE Head(tiles).byteLength + TotalByteLength(Tail(tiles))

\* The arguments of fromTileType: the buffer and the byteOffset (tiles and
\* version say what the buffer was built from).  The byteLength field of the
\* header is the length of the composite, or 0.
DecodeInputs ==
  UNION {
    {[arrayBuffer |-> Padding(byteOffset)
                      \o CompositeTile(version, byteLength, tiles),
      byteOffset |-> byteOffset, version |-> version,
      byteLength |-> byteLength, tiles |-> tiles]
     : version \in {1, 2}, byteLength \in {0, TotalByteLength(tiles)},
       byteOffset \in {Undefined, Some(8)}}
    : tiles \in TileSequences}

\* view.getUint32(byteOffset, true)
getUint32(view, byteOffset) == view[byteOffset \div sizeOfUint32 + 1]

\* getMagic(uint8Array, byteOffset)
getMagic(uint8Array, byteOffset) == uint8Array[byteOffset \div sizeOfUint32 + 1]

\* What a factory does when it is called: it returns a promise, returns a
\* content, or raises.
FactoryPlans(n) == [1..n -> {"promise", "content", "throw"}]

\* A version test that accepts every version.
versionSupportedAny(version) == TRUE

\* fromTileType: the test of the version field.
versionSupported(version) == version = 1

\* fromTileType up to its loop: the version read, whether it is refused, and
\* the tilesLength and byteOffset the loop starts with.
fromTileTypeHeader(arrayBuffer, byteOffset) ==
  The({ [version |-> getUint32(arrayBuffer, start + sizeOfUint32),
         threw |-> ~versionSupported(getUint32(arrayBuffer,
                                               start + sizeOfUint32)),
         tilesLength |-> getUint32(arrayBuffer, start + 3 * sizeOfUint32),
         byteOffset |-> start + 4 * sizeOfUint32]
        : start \in {IF defined(byteOffset) THEN Get(byteOffset) ELSE 0} })

\* The errors of a decode.
RuntimeErrorVersion(version) == [name |-> "RuntimeError: version", detail |-> version]
RuntimeErrorTileType(tileType) == [name |-> "RuntimeError: tile type", detail |-> tileType]
FactoryError(i) == [name |-> "factory error", detail |-> i]

RECURSIVE fromTileTypeLoop(_, _, _, _, _, _)

\* A loop that leaves out an inner tile of unknown type and goes on.
fromTileTypeLoopSkips(arrayBuffer, factory, plan, tilesLength, i, byteOffset) ==
  IF i >= tilesLength THEN [invoked |-> <<>>, threw |-> Undefined]
  ELSE IF getMagic(arrayBuffer, byteOffset) \notin factory
    THEN fromTileTypeLoop(arrayBuffer, factory, plan, tilesLength, i + 1,
                          byteOffset + getUint32(arrayBuffer,
                                                 byteOffset + sizeOfUint32 * 2))
  ELSE IF plan[i + 1] = "throw"
    THEN [invoked |-> << [index |-> i,
                          tileType |-> getMagic(arrayBuffer, byteOffset),
                          byteOffset |-> byteOffset] >>,
          threw |-> Some(FactoryError(i))]
  ELSE
    The({ [rest EXCEPT
             !.invoked = << [index |-> i,
                             tileType |-> getMagic(arrayBuffer, byteOffset),
                             byteOffset |-> byteOffset] >> \o @]
          : rest \in
              {fromTileTypeLoop(arrayBuffer, factory, plan, tilesLength, i + 1,
                                byteOffset
                                + getUint32(arrayBuffer,
                                            byteOffset + sizeOfUint32 * 2))} })

\* A loop that gives every factory the byteOffset of the first inner tile.
fromTileTypeLoopSameOffset(arrayBuffer, factory, plan, tilesLength, i, byteOffset) ==
  IF i >= tilesLength THEN [invoked |-> <<>>, threw |-> Undefined]
  ELSE IF getMagic(arrayBuffer, byteOffset) \notin factory
    THEN [invoked |-> <<>>,
          threw |-> Some(RuntimeErrorTileType(getMagic(arrayBuffer,
                                                       byteOffset)))]
  ELSE IF plan[i + 1] = "throw"
    THEN [invoked |-> << [index |-> i,
                          tileType |-> getMagic(arrayBuffer, byteOffset),
                          byteOffset |-> byteOffset] >>,
          threw |-> Some(FactoryError(i))]
  ELSE
    The({ [rest EXCEPT
             !.invoked = << [index |-> i,
                             tileType |-> getMagic(arrayBuffer, byteOffset),
                             byteOffset |-> byteOffset] >> \o @]
          : rest \in
              {fromTileTypeLoop(arrayBuffer, factory, plan, tilesLength, i + 1,
                                byteOffset)} })

\* A loop that calls the factory of the next inner tile only once the
\* promise of this one is settled: it stops at a factory that returned a
\* promise.
fromTileTypeLoopAwaitsEach(arrayBuffer, factory, plan, tilesLength, i, byteOffset) ==
  IF i >= tilesLength THEN [invoked |-> <<>>, threw |-> Undefined]
  ELSE IF getMagic(arrayBuffer, byteOffset) \notin factory
    THEN [invoked |-> <<>>,
          threw |-> Some(RuntimeErrorTileType(getMagic(arrayBuffer,
                                                       byteOffset)))]
  ELSE IF plan[i + 1] = "throw"
    THEN [invoked |-> << [index |-> i,
                          tileType |-> getMagic(arrayBuffer, byteOffset),
                          byteOffset |-> byteOffset] >>,
          threw |-> Some(FactoryError(i))]
  ELSE IF plan[i + 1] = "promise"
    THEN [invoked |-> << [index |-> i,
                          tileType |-> getMagic(arrayBuffer, byteOffset),
                          byteOffset |-> byteOffset] >>,
          threw |-> Undefined]
  ELSE
    The({ [rest EXCEPT
             !.invoked = << [index |-> i,
                             tileType |-> getMagic(arrayBuffer, byteOffset),
                             byteOffset |-> byteOffset] >> \o @]
          : rest \in
              {fromTileTypeLoop(arrayBuffer, factory, plan, tilesLength, i + 1,
                                byteOffset
                                + getUint32(arrayBuffer,
                                            byteOffset + sizeOfUint32 * 2))} })

\* The loop of fromTileType from inner tile i (counted from 0) at byteOffset.
\* Returns the factory calls made, in call order, and the error raised
\* (Undefined when the loop ended).
fromTileTypeLoop(arrayBuffer, factory, plan, tilesLength, i, byteOffset) ==
  IF i >= tilesLength THEN [invoked |-> <<>>, threw |-> Undefined]
  ELSE IF getMagic(arrayBuffer, byteOffset) \notin factory
    THEN [invoked |-> <<>>,
          threw |-> Some(RuntimeErrorTileType(getMagic(arrayBuffer,
                                                       byteOffset)))]
  ELSE IF plan[i + 1] = "throw"
    THEN [invoked |-> << [index |-> i,
                          tileType |-> getMagic(arrayBuffer, byteOffset),
                          byteOffset |-> byteOffset] >>,
          threw |-> Some(FactoryError(i))]
  ELSE
    The({ [rest EXCEPT
             !.invoked = << [index |-> i,
                             tileType |-> getMagic(arrayBuffer, byteOffset),
                             byteOffset |-> byteOffset] >> \o @]
          : rest \in
              {fromTileTypeLoop(arrayBuffer, factory, plan, tilesLength, i + 1,
                                byteOffset
                                + getUint32(arrayBuffer,
                                            byteOffset + sizeOfUint32 * 2))} })

\* The promise made of what a factory returned: Promise.resolve(content) is
\* fulfilled, Promise.resolve(promise) follows the promise.
PromiseResolve(returned) == IF returned = "content" THEN "fulfilled" ELSE "pending"

\* The indices whose promise is in state, in index order (0-based indices of
\* a 1-based sequence of promise states).
RECURSIVE IndicesIn(_, _, _)
IndicesIn(promises, state, i) ==
  IF i > Len(promises) THEN <<>>
  ELSE (IF promises[i] = state THEN <<i - 1>> ELSE <<>>)
       \o IndicesIn(promises, state, i + 1)

\* A Promise.all that is fulfilled with the values in the order in which the
\* promises were fulfilled.
PromiseAllInSettleOrder(promises, values, order) ==
  IF \E i \in 1..Len(promises) : promises[i] = "rejected"
    THEN [state |-> "rejected",
          reason |-> Some(FactoryError(
                       The({order[k] : k \in {first \in 1..Len(order) :
                              /\ promises[order[first] + 1] = "rejected"
                              /\ \A j \in 1..(first - 1) :
                                   promises[order[j] + 1] # "rejected"}}))),
          values |-> <<>>]
  ELSE IF \A i \in 1..Len(promises) : promises[i] = "fulfilled"
    THEN [state |-> "fulfilled", reason |-> Undefined,
          values |-> [k \in 1..Len(promises) |-> values[order[k] + 1]]]
  ELSE [state |-> "pending", reason |-> Undefined, values |-> <<>>]

\* A Promise.all that waits for every promise and leaves out the rejected.
PromiseAllSettled(promises, values, order) ==
  IF \E i \in 1..Len(promises) : promises[i] = "pending"
    THEN [state |-> "pending", reason |-> Undefined, values |-> <<>>]
  ELSE [state |-> "fulfilled", reason |-> Undefined,
        values |-> [k \in 1..Len(IndicesIn(promises, "fulfilled", 1)) |->
                      values[IndicesIn(promises, "fulfilled", 1)[k] + 1]]]

\* Promise.all(promises), given the states of the promises, the values they
\* are fulfilled with and the order in which they were settled: rejected
\* with the reason of the promise rejected first, fulfilled with the values
\* in index order once every promise is fulfilled.
PromiseAll(promises, values, order) ==
  IF \E i \in 1..Len(promises) : promises[i] = "rejected"
    THEN [state |-> "rejected",
          reason |-> Some(FactoryError(
                       The({order[k] : k \in {first \in 1..Len(order) :
                              /\ promises[order[first] + 1] = "rejected"
                              /\ \A j \in 1..(first - 1) :
                                   promises[order[j] + 1] # "rejected"}}))),
          values |-> <<>>]
  ELSE IF \A i \in 1..Len(promises) : promises[i] = "fulfilled"
    THEN [state |-> "fulfilled", reason |-> Undefined,
          values |-> [k \in 1..Len(promises) |-> values[k]]]
  ELSE [state |-> "pending", reason |-> Undefined, values |-> <<>>]

\* fromTileType after its loop: await Promise.all(promises), then construct
\* the composite of the inner contents.  d is the decode with the promises as
\* they are now.
fromTileTypeAwait(d) ==
  IF d.state # "awaiting" THEN d
  ELSE
    The({ IF all.state = "rejected"
            THEN [d EXCEPT !.state = "rejected", !.reason = all.reason]
          ELSE IF all.state = "fulfilled"
            THEN [d EXCEPT !.state = "fulfilled",
                           !.content = Some([_contents |-> all.values,
                                             _ready |-> FALSE])]
          ELSE d
          : all \in {PromiseAll(d.promises, d.invoked, d.order)} })

\* How many of the factory calls of a loop returned (the last one did not
\* when it raised).
Promised(looped) ==
  IF defined(looped.threw) /\ Get(looped.threw).name = "factory error"
    THEN Len(looped.invoked) - 1
  ELSE Len(looped.invoked)

\* The synchronous part of fromTileType(tileset, tile, resource, arrayBuffer,
\* byteOffset, factory): the decode record after the call returned its
\* promise.
fromTileType(d, factory, plan) ==
  The({ IF header.threw
          THEN [d EXCEPT !.state = "rejected",
                         !.reason = Some(RuntimeErrorVersion(header.version))]
        ELSE
          The({ IF defined(looped.threw)
                  THEN [d EXCEPT
                          !.state = "rejected",
                          !.reason = looped.threw,
                          !.invoked = looped.invoked,
                          !.promises =
                             [k \in 1..Promised(looped) |->
                                PromiseResolve(plan[k])],
                          !.order = IndicesIn(
                             [k \in 1..Promised(looped) |->
                                PromiseResolve(plan[k])], "fulfilled", 1)]
                ELSE [d EXCEPT
                        !.state = "awaiting",
                        !.invoked = looped.invoked,
                        !.promises = [k \in 1..Len(looped.invoked) |->
                                        PromiseResolve(plan[k])],
                        !.order = IndicesIn(
                           [k \in 1..Len(looped.invoked) |->
                              PromiseResolve(plan[k])], "fulfilled", 1)]
                : looped \in
                    {fromTileTypeLoop(d.input.arrayBuffer, factory, plan,
                                      header.tilesLength, 0,
                                      header.byteOffset)} })
        : header \in {fromTileTypeHeader(d.input.arrayBuffer,
                                         d.input.byteOffset)} })

\* The composite machine is not part of the decode machine.
NoCompositeDecoded ==
  /\ composite = Undefined
  /\ contents = <<>>
  /\ ccall = NoCompositeCall

DecodeInit ==
  /\ \E input \in DecodeInputs :
       decode = [input |-> input, state |-> "idle", reason |-> Undefined,
                 invoked |-> <<>>, promises |-> <<>>, order |-> <<>>,
                 content |-> Undefined]
  /\ NoGeometry
  /\ NoCompositeDecoded
  /\ NoResources
  /\ NoPropertyArray

\* The tileset calls fromTileType on the buffer; the call runs up to its
\* await, and past it when no promise is pending.
FromTileType ==
  /\ decode.state = "idle"
  /\ \E plan \in FactoryPlans(Len(decode.input.tiles)) :
       \E called \in {fromTileType(decode, Factories, plan)} :
          decode' = fromTileTypeAwait(called)
  /\ UNCHANGED geometryVars
  /\ UNCHANGED compositeVars
  /\ UNCHANGED otherVars

\* The promise a factory returned for inner tile i is fulfilled.
FactoryFulfills ==
  /\ \E i \in 1..Len(decode.promises) :
       /\ decode.promises[i] = "pending"
       /\ \E settled \in {[decode EXCEPT !.promises[i] = "fulfilled",
                                         !.order = Append(@, i - 1)]} :
            decode' = fromTileTypeAwait(settled)
  /\ UNCHANGED geometryVars
  /\ UNCHANGED compositeVars
  /\ UNCHANGED otherVars

\* The promise a factory returned for inner tile i is rejected.
FactoryRejects ==
  /\ \E i \in 1..Len(decode.promises) :
       /\ decode.promises[i] = "pending"
       /\ \E settled \in {[decode EXCEPT !.promises[i] = "rejected",
                                         !.order = Append(@, i - 1)]} :
            decode' = fromTileTypeAwait(settled)
  /\ UNCHANGED geometryVars
  /\ UNCHANGED compositeVars
  /\ UNCHANGED otherVars

DecodeNext ==
  \/ FromTileType
  \/ FactoryFulfills
  \/ FactoryRejects

DecodeSpec == DecodeInit /\ [][DecodeNext]_vars

\* ------------------------------------- resources of nested composites
\* A resource: its query parameter compositeIndex.
Resource(compositeIndex) == [compositeIndex |-> compositeIndex]

\* A prefix that leaves out the compositeIndex of the resource.
compositeIndexPrefixNone(resource) == ""

\* let prefix = resource.queryParameters.compositeIndex, followed by an
\* underscore when it is defined, else the empty string.
compositeIndexPrefix(resource) ==
  IF defined(resource.compositeIndex)
    THEN Get(resource.compositeIndex) \o "_"
  ELSE ""

\* const compositeIndex = `${prefix}${i}`
childCompositeIndex(prefix, i) == prefix \o ToString(i)

\* resource.getDerivedResource({queryParameters: {compositeIndex}})
getDerivedResource(resource, compositeIndex) ==
  [resource EXCEPT !.compositeIndex = Some(compositeIndex)]

\* The resources fromTileType derives for the inner tiles 0..tilesLength-1 of
\* a composite loaded from resource, in the order of the tiles.
childResources(resource, tilesLength) ==
  The({ [k \in 1..tilesLength |->
           getDerivedResource(resource, childCompositeIndex(prefix, k - 1))]
        : prefix \in {compositeIndexPrefix(resource)} })

\* The composite machine and the decode machine are not part of this one.
NoContent ==
  /\ NoGeometry
  /\ NoCompositeDecoded
  /\ decode = Undefined
  /\ NoPropertyArray

\* Two inner tiles of one tile of a tileset are followed, each by the indices
\* from the outermost composite down to it (node) and the resource it was
\* given; both start at the outermost composite, loaded from a resource with
\* no compositeIndex.
NestedInit ==
  /\ resources = [k \in 1..2 |-> [node |-> <<>>, resource |-> Resource(Undefined)]]
  /\ NoContent

\* fromTileType is called for the composite one of the two is at, a composite
\* of tilesLength inner tiles, and that one goes on to inner tile i.
NestedFromTileType ==
  /\ \E k \in 1..2, tilesLength \in 1..MaxChildren :
       /\ Len(resources[k].node) < MaxNesting
       /\ \E derived \in {childResources(resources[k].resource, tilesLength)} :
            \E i \in 0..(tilesLength - 1) :
              resources' = [resources EXCEPT
                              ![k] = [node |-> Append(@.node, i),
                                      resource |-> derived[i + 1]]]
  /\ UNCHANGED geometryVars
  /\ UNCHANGED compositeVars
  /\ UNCHANGED <<decode, propertyArray>>

NestedNext == NestedFromTileType

NestedSpec == NestedInit /\ [][NestedNext]_vars

\* ------------------------------------------- the PositionPropertyArray
\* The two properties an array may hold, and the items of an array: a
\* property or undefined.
Properties == {1, 2}
Items == {Undefined} \cup {Some(property) : property \in Properties}

\* The arguments of the constructor and of setValue: undefined or an array.
ArrayValues ==
  {Undefined} \cup {Some(array) : array \in UNION {[1..n -> Items] : n \in 0..MaxItems}}

\* Property.isConstant(property): an undefined item counts as constant, a
\* property is asked.
PropertyIsConstant(item, constant) ==
  IF defined(item) THEN constant[Get(item)] ELSE TRUE

\* EventHelper.prototype.removeAll: no listener this helper added is left.
removeAll(eventHelper) == <<>>

\* EventHelper.prototype.add(event, listener, scope): the listener is added
\* to the event of property.
add(eventHelper, property) == Append(eventHelper, property)

\* Event.prototype.raiseEvent of the definitionChanged of property: the
\* number of calls of _raiseDefinitionChanged it makes, one for each listener
\* the helper has on that event.
raiseEvent(eventHelper, property) ==
  Cardinality({i \in DOMAIN eventHelper : eventHelper[i] = property})

\* An isConstant that asks the first item only.
isConstantOfFirst(a, constant) ==
  IF ~defined(a._value) THEN TRUE
  ELSE IF Get(a._value) = <<>> THEN TRUE
  ELSE PropertyIsConstant(Get(a._value)[1], constant)

\* The getter isConstant.
isConstant(a, constant) ==
  IF ~defined(a._value) THEN TRUE
  ELSE \A i \in DOMAIN Get(a._value) :
         PropertyIsConstant(Get(a._value)[i], constant)

\* The loop of setValue from item i: a listener is added for every item that
\* is defined.
RECURSIVE setValueLoop(_, _, _)
setValueLoop(eventHelper, value, i) ==
  IF i > Len(value) THEN eventHelper
  ELSE setValueLoop(IF defined(value[i]) THEN add(eventHelper, Get(value[i]))
                    ELSE eventHelper,
                    value, i + 1)

\* A setValue that adds no listener.
setValueListensToNone(a, value) ==
  [a |-> [a EXCEPT !._value = value, !._eventHelper = removeAll(@),
                   !._valueArray = IF defined(value) THEN "copy" ELSE "none"],
   raised |-> 1]

\* A setValue that leaves the listeners of the array it replaces in place.
setValueKeepsListeners(a, value) ==
  IF defined(value)
    THEN [a |-> [a EXCEPT !._value = value,
                          !._valueArray = "copy",
                          !._eventHelper = setValueLoop(@, Get(value), 1)],
          raised |-> 1]
  ELSE [a |-> [a EXCEPT !._value = Undefined, !._valueArray = "none"],
        raised |-> 1]

\* PositionPropertyArray.prototype.setValue(value).  Returns the instance and
\* the number of times it raised definitionChanged.  _value holds the items
\* and _valueArray says which array object they are in: value.slice() is a
\* new array ("copy"), not the array of the caller ("supplied").
setValue(a, value) ==
  IF defined(value)
    THEN [a |-> [a EXCEPT !._value = value,
                          !._valueArray = "copy",
                          !._eventHelper =
                            setValueLoop(removeAll(@), Get(value), 1)],
          raised |-> 1]
  ELSE [a |-> [a EXCEPT !._value = Undefined, !._valueArray = "none",
                        !._eventHelper = removeAll(@)],
        raised |-> 1]

\* function PositionPropertyArray(value, referenceFrame)
PositionPropertyArray(value) ==
  setValue([_value |-> Undefined, _valueArray |-> "none",
            _eventHelper |-> <<>>], value).a

\* The properties that are items of the array stored.
PropertiesOf(a) ==
  IF defined(a._value)
    THEN {Get(Get(a._value)[i]) :
            i \in {k \in DOMAIN Get(a._value) : defined(Get(a._value)[k])}}
  ELSE {}

\* What the properties evaluate to at the time and in the reference frame of
\* a call: property p has the position p, or no value (undefined).
ItemValues ==
  [Properties -> BOOLEAN]

\* property.getValueInReferenceFrame(time, referenceFrame, result[i])
itemGetValueInReferenceFrame(property, values) ==
  IF values[property] THEN Some(property) ELSE Undefined

\* The while loop of getValueInReferenceFrame from item i (1-based), with
\* found the item values written to result[0 .. x - 1] so far.  Reading
\* getValueInReferenceFrame of an item that is undefined raises a TypeError.
RECURSIVE getValueLoop(_, _, _, _)
getValueLoop(value, values, i, found) ==
  IF i > Len(value) THEN [threw |-> Undefined, found |-> found]
  ELSE IF ~defined(value[i]) THEN [threw |-> Some("TypeError"), found |-> found]
  ELSE
    The({ getValueLoop(value, values, i + 1,
                       IF defined(itemValue) THEN Append(found, Get(itemValue))
                       ELSE found)
          : itemValue \in
              {itemGetValueInReferenceFrame(Get(value[i]), values)} })

\* PositionPropertyArray.prototype.getValueInReferenceFrame(time,
\* referenceFrame, result), with time and referenceFrame given.  Returns what
\* was raised, the array returned (result.length = x leaves the x item values
\* found) and whether it is the result passed or a new array.
getValueInReferenceFrame(a, values, resultPassed) ==
  IF ~defined(a._value)
    THEN [threw |-> Undefined, returned |-> Undefined, into |-> "none"]
  ELSE
    The({ IF defined(looped.threw)
            THEN [threw |-> looped.threw, returned |-> Undefined,
                  into |-> "none"]
          ELSE [threw |-> Undefined, returned |-> Some(looped.found),
                into |-> IF resultPassed THEN "result" ELSE "new"]
          : looped \in {getValueLoop(Get(a._value), values, 1, <<>>)} })

\* No call has been made on the array.
NoArrayCall ==
  [op |-> "none", value |-> Undefined, property |-> 0, returned |-> FALSE,
   values |-> <<>>, got |-> Undefined, threw |-> Undefined, into |-> "none"]

\* A PositionPropertyArray was constructed with value, over properties that
\* are constant or not; raised counts the definitionChanged events of the
\* array raised in the last step.
PropertyArrayInit ==
  /\ \E value \in ArrayValues, constant \in [Properties -> BOOLEAN] :
       propertyArray = [array |-> PositionPropertyArray(value),
                        supplied |-> value,
                        caller |-> value,
                        before |-> {},
                        constant |-> constant,
                        raised |-> 0,
                        call |-> NoArrayCall]
  /\ NoGeometry
  /\ NoCompositeDecoded
  /\ decode = Undefined
  /\ NoResources

\* The owner calls setValue(value).
SetValue ==
  /\ \E value \in ArrayValues :
       \E set \in {setValue(propertyArray.array, value)} :
         propertyArray' = [propertyArray EXCEPT
                             !.array = set.a,
                             !.supplied = value,
                             !.caller = value,
                             !.before = PropertiesOf(propertyArray.array),
                             !.raised = set.raised,
                             !.call = [NoArrayCall EXCEPT !.op = "setValue",
                                                          !.value = value]]
  /\ UNCHANGED geometryVars
  /\ UNCHANGED compositeVars
  /\ UNCHANGED <<decode, resources>>

\* The definition of a property changes (it becomes constant or not, or stays
\* as it is) and the property raises its definitionChanged.
PropertyDefinitionChanged ==
  /\ \E property \in Properties, constant \in BOOLEAN :
       propertyArray' = [propertyArray EXCEPT
                           !.constant[property] = constant,
                           !.raised = raiseEvent(propertyArray.array._eventHelper,
                                                 property),
                           !.call = [NoArrayCall EXCEPT
                                       !.op = "definitionChanged",
                                       !.property = property]]
  /\ UNCHANGED geometryVars
  /\ UNCHANGED compositeVars
  /\ UNCHANGED <<decode, resources>>

\* The owner reads isConstant.
ReadIsConstant ==
  /\ propertyArray' = [propertyArray EXCEPT
                         !.raised = 0,
                         !.call = [NoArrayCall EXCEPT
                                     !.op = "isConstant",
                                     !.returned =
                                       isConstant(propertyArray.array,
                                                  propertyArray.constant)]]
  /\ UNCHANGED geometryVars
  /\ UNCHANGED compositeVars
  /\ UNCHANGED <<decode, resources>>

\* The owner calls getValueInReferenceFrame(time, referenceFrame, result),
\* with or without a result.
GetValueInReferenceFrame ==
  /\ \E values \in ItemValues, resultPassed \in BOOLEAN :
       \E g \in {getValueInReferenceFrame(propertyArray.array, values,
                                          resultPassed)} :
         propertyArray' = [propertyArray EXCEPT
                             !.raised = 0,
                             !.call = [NoArrayCall EXCEPT
                                         !.op = "getValueInReferenceFrame",
                                         !.values = values,
                                         !.got = g.returned,
                                         !.threw = g.threw,
                                         !.into = g.into]]
  /\ UNCHANGED geometryVars
  /\ UNCHANGED compositeVars
  /\ UNCHANGED <<decode, resources>>

\* The caller changes the array it passed to the constructor or to setValue
\* last: it removes the last item (array.pop()).  The items of the array
\* object _value refers to change when that object is the caller's.
CallerChangesArray ==
  /\ defined(propertyArray.caller)
  /\ Get(propertyArray.caller) # <<>>
  /\ \E changed \in {Some(SubSeq(Get(propertyArray.caller), 1,
                                  Len(Get(propertyArray.caller)) - 1))} :
       propertyArray' = [propertyArray EXCEPT
                           !.caller = changed,
                           !.array._value =
                             IF propertyArray.array._valueArray = "supplied"
                               THEN changed
                             ELSE @,
                           !.raised = 0,
                           !.call = [NoArrayCall EXCEPT !.op = "pop"]]
  /\ UNCHANGED geometryVars
  /\ UNCHANGED compositeVars
  /\ UNCHANGED <<decode, resources>>

PropertyArrayNext ==
  \/ SetValue
  \/ PropertyDefinitionChanged
  \/ ReadIsConstant
  \/ GetValueInReferenceFrame
  \/ CallerChangesArray

PropertyArraySpec == PropertyArrayInit /\ [][PropertyArrayNext]_vars

\* ------------------------------------------------ vector geometry claims
\* The batch ids of the shape instances in submission order: boxes,
\* cylinders, ellipsoids, spheres.
InstanceBatchIds ==
  (IF defined(options.boxBatchIds) THEN Get(options.boxBatchIds) ELSE <<>>)
  \o (IF defined(options.cylinderBatchIds) THEN Get(options.cylinderBatchIds) ELSE <<>>)
  \o (IF defined(options.ellipsoidBatchIds) THEN Get(options.ellipsoidBatchIds) ELSE <<>>)
  \o (IF defined(options.sphereBatchIds) THEN Get(options.sphereBatchIds) ELSE <<>>)

\* The content is Unstarted: nothing stored by a request, not ready, no error.
Unstarted(g) ==
  /\ ~defined(g._promise)
  /\ ~defined(g._verticesPromise)
  /\ ~g._ready
  /\ ~defined(g._error)

\* C1: while the request scheduleTask accepted is outstanding, no step (no
\* update call in particular) invokes scheduleTask again.
C1_OneRequestOutstanding ==
  [][task.state = "pending" =>
       /\ task'.calls = task.calls
       /\ task'.accepted = 1]_vars

\* C1 witness: update was called, and returned, while the request was
\* outstanding, without calling scheduleTask.
C1_Witness ==
  /\ task.state = "pending"
  /\ call.op = "update"
  /\ call.outcome = "returned"
  /\ ~call.scheduled

\* C2: after the worker rejected the request of a content that is not
\* destroyed, the first update call raises the stored error, every later one
\* returns, and ready is false.
C2_RejectionRaisedOnce ==
  (task.state = "rejected" /\ ~isDestroyed(geometries)) =>
     /\ ~geometries._ready
     /\ call.sinceSettled = 0 => geometries._error = Some("WorkerError")
     /\ (call.op = "update" /\ call.sinceSettled = 1) =>
           (call.outcome = "WorkerError" /\ ~defined(geometries._error))
     /\ (call.op = "update" /\ call.sinceSettled = 2) =>
           (call.outcome = "returned" /\ ~defined(geometries._error))

\* C2 witness: a second update call after the rejection has returned.
C2_Witness ==
  /\ task.state = "rejected"
  /\ ~isDestroyed(geometries)
  /\ call.op = "update"
  /\ call.sinceSettled = 2
  /\ call.outcome = "returned"

\* C3: once the content is destroyed with its request outstanding, the
\* arrival of the result or of the rejection changes no field of the content,
\* constructs no primitive and raises nothing.
C3_DestroyedDropsResult ==
  [][(isDestroyed(geometries) /\ task.state = "pending") =>
       /\ geometries' = geometries
       /\ primitive' = primitive
       /\ ~task'.thenThrew]_vars

\* C3 witness: the result arrived after destroy().
C3_Witness ==
  /\ task.state = "resolved"
  /\ task.settledDestroyed
  /\ isDestroyed(geometries)

\* C4: an update call made while no request was accepted submits one; when
\* scheduleTask postpones it the call returns and the content stays
\* Unstarted, so the next update call submits again.
C4_PostponedRetries ==
  [][(task.state = "idle" /\ ~isDestroyed(geometries) /\ call'.op = "update") =>
       /\ call'.scheduled
       /\ call'.outcome = "returned"
       /\ task'.calls = task.calls + 1
       /\ task'.state = "idle" => Unstarted(geometries')]_vars

\* C4 witness: an update call resubmitted after a postponed one and was
\* postponed again.
C4_Witness ==
  /\ task.state = "idle"
  /\ task.deferrals >= 2
  /\ task.calls >= 2
  /\ call.op = "update"
  /\ call.scheduled
  /\ Unstarted(geometries)

\* The decode result is in the options the primitive was constructed with.
Unpacked(primitiveOptions) ==
  /\ defined(primitiveOptions.boundingVolumes)
  /\ defined(primitiveOptions.batchedIndices)
  /\ defined(primitiveOptions.indices)
  /\ defined(primitiveOptions.positions)
  /\ defined(primitiveOptions.vertexBatchIds)
  /\ defined(primitiveOptions.batchIds)

C5_State ==
  /\ primitive.constructed <= 1
  /\ primitive.constructed = 1 =>
       (task.state = "resolved" /\ Unpacked(Get(primitive.options)))
  /\ geometries._ready => primitive.constructed = 1
  /\ (task.state = "resolved" /\ ~task.settledDestroyed /\ ~task.thenThrew) =>
       geometries._ready

\* C5: the primitive is constructed at most once, only when the result has
\* arrived and from the unpacked result; a result that is unpacked makes the
\* content ready, and ready never goes back to false.
C5_ReadyOnce ==
  [][/\ C5_State
     /\ C5_State'
     /\ geometries._ready => geometries'._ready]_vars

\* C5 witness: update was called on the ready content.
C5_Witness ==
  /\ geometries._ready
  /\ primitive.constructed = 1
  /\ call.op = "update"
  /\ call.sinceSettled = 2

\* The buffers of the shape kinds in the parameters of a submission.
SubmittedShapeBuffers(parameters) ==
  {parameters.boxes, parameters.boxBatchIds,
   parameters.cylinders, parameters.cylinderBatchIds,
   parameters.ellipsoids, parameters.ellipsoidBatchIds,
   parameters.spheres, parameters.sphereBatchIds}

\* C6: every buffer of a shape kind submitted to the worker is a copy, never
\* the storage of the array supplied at construction.
C6_SubmitsCopies ==
  defined(task.parameters) =>
    \A buffer \in SubmittedShapeBuffers(Get(task.parameters)) :
      buffer # Some("supplied")

\* C7 as stated: entry k of the submitted colour table is the packed colour
\* of the batch id of the k-th shape instance.
C7_ColorsByInstanceBatchId ==
  defined(task.parameters) =>
    Get(task.parameters).batchTableColors =
      [k \in 1..Len(InstanceBatchIds) |-> toRgba(getColor(InstanceBatchIds[k]))]

\* C7 amended: the submitted colour table has one entry per shape instance,
\* and entry k (counted from 0) is the packed colour of batch id k.
C7_ColorsByIndex ==
  defined(task.parameters) =>
    Get(task.parameters).batchTableColors =
      [k \in 1..Len(InstanceBatchIds) |-> toRgba(getColor(k - 1))]

\* C7 witness: a table was submitted for instances whose batch ids are not
\* their positions.
C7_Witness ==
  /\ defined(task.parameters)
  /\ Len(InstanceBatchIds) >= 2
  /\ \E k \in 1..Len(InstanceBatchIds) : InstanceBatchIds[k] # k - 1

\* A destroy call was made in the step (the record of the last call changes
\* to a destroy record).
DestroyCalled == call'.op = "destroy" /\ call' # call

\* What the first destroy call does: it returns, marks the content destroyed,
\* destroys the primitive if there is one and nothing otherwise.
FirstDestroy ==
  /\ call'.outcome = "returned"
  /\ geometries'.destroyed
  /\ ~defined(geometries'._primitive)
  /\ primitive'.destroyed =
       primitive.destroyed + (IF defined(geometries._primitive) THEN 1 ELSE 0)
  /\ primitive'.destroyed <= 1
  /\ defined(geometries._primitive) <=> geometries._ready

\* C18 as stated: destroy() marks the content destroyed in every state,
\* destroying the primitive once if the content is ready and nothing
\* otherwise, and a second destroy() call returns as well.
C18_SecondDestroyReturns ==
  [][DestroyCalled =>
       IF geometries.destroyed
         THEN call'.outcome = "returned" /\ UNCHANGED <<geometries, primitive>>
       ELSE FirstDestroy]_vars

\* C18: destroy() marks the content destroyed in every state, destroying the
\* primitive once if the content is ready and nothing otherwise; a second
\* destroy() call raises a DeveloperError and destroys nothing more.
C18_SecondDestroyRaises ==
  [][DestroyCalled =>
       IF geometries.destroyed
         THEN /\ call'.outcome = "DeveloperError"
              /\ UNCHANGED <<geometries, primitive>>
       ELSE FirstDestroy]_vars

\* C18 witness: a ready content was destroyed, its primitive with it, and
\* destroy() was called again.
C18_Witness ==
  /\ geometries.destroyed
  /\ primitive.constructed = 1
  /\ primitive.destroyed = 1
  /\ call.op = "destroy"
  /\ call.outcome = "DeveloperError"

\* The fields of the raw input (the shape arrays and their batch ids; _sphere
\* is the field the copy of the spheres is stored in) that are defined.
RawHeld(g) ==
  {name \in {"_boxes", "_boxBatchIds", "_cylinders", "_cylinderBatchIds",
             "_ellipsoids", "_ellipsoidBatchIds", "_spheres",
             "_sphereBatchIds", "_sphere"} : defined(g[name])}

\* The fields of the decoded output that are defined.
DecodedHeld(g) ==
  {name \in {"_boundingVolumes", "_batchedIndices", "_indices",
             "_indexOffsets", "_indexCounts", "_positions",
             "_vertexBatchIds", "_batchIds"} : defined(g[name])}

PrimitiveConstructed == primitive'.constructed = primitive.constructed + 1

\* C20 as stated: immediately after the primitive is constructed every
\* intermediate field of the content (raw shape arrays and batch ids, colour
\* table, packed buffer, decode results) is absent, while the primitive, the
\* batch table reference and the readiness flag survive.
C20_OnlyIdentitySurvives ==
  [][PrimitiveConstructed =>
       /\ RawHeld(geometries') = {}
       /\ DecodedHeld(geometries') = {}
       /\ ~defined(geometries'._batchTableColors)
       /\ ~defined(geometries'._packedBuffer)
       /\ defined(geometries'._primitive)
       /\ defined(geometries'._batchTable)
       /\ geometries'._ready]_vars

\* C21: before the result of the decode request has been delivered (no
\* request made yet, every attempt so far postponed, or a request
\* outstanding), every derived field is absent and ready is false.
C21_NothingDerivedBeforeResult ==
  task.state \in {"idle", "pending"} =>
    /\ DecodedHeld(geometries) = {}
    /\ ~geometries._ready
    /\ ~defined(geometries._primitive)

\* C21 witness: an attempt was postponed, a later one was accepted and its
\* result is outstanding.
C21_Witness ==
  /\ task.state = "pending"
  /\ task.deferrals >= 1
  /\ task.accepted = 1
  /\ defined(geometries._promise)
  /\ ~geometries._ready

\* A call of createFeatures, applyDebugSettings, applyStyle or updateCommands
\* was made in the step.
DelegatedCalled ==
  /\ call' # call
  /\ call'.op \in {"createFeatures", "applyDebugSettings", "applyStyle",
                   "updateCommands"}

\* C22: a call of createFeatures, applyDebugSettings, applyStyle or
\* updateCommands made while ready is false raises an error, reaches no
\* primitive and changes nothing of the content; made on a ready content (one
\* that was not destroyed) it is forwarded to the same function of the
\* primitive with the arguments of the call.
C22_DelegatedNeedsReady ==
  [][DelegatedCalled =>
       /\ UNCHANGED <<geometries, task, primitive>>
       /\ IF ~geometries._ready
            THEN /\ call'.outcome \in {"TypeError", "DeveloperError"}
                 /\ call'.received = Undefined
          ELSE ~geometries.destroyed =>
                 /\ call'.outcome = "forwarded"
                 /\ call'.received =
                      Some([f |-> call'.op, arguments |-> call'.arguments])]_vars

\* C22 witness: applyStyle was called while the request was outstanding and
\* raised a TypeError.
C22_Witness ==
  /\ task.state = "pending"
  /\ ~geometries._ready
  /\ ~geometries.destroyed
  /\ call.op = "applyStyle"
  /\ call.arguments = <<"style", "features">>
  /\ call.outcome = "TypeError"

\* The request failed: the worker rejected it, or the unpacking of its result
\* raised.
DecodeFailed ==
  \/ task.state = "rejected"
  \/ task.state = "resolved" /\ task.thenThrew

\* C23: once the request has failed (worker rejection or a result that could
\* not be unpacked) no step, and so no later update call, calls scheduleTask
\* again: the request record stays as it is.
C23_NoRetryAfterFailure ==
  [][DecodeFailed => (task' = task /\ ~call'.scheduled)]_vars

\* C23 witness: the unpacking of the result raised, and update has been
\* called twice since then with one request ever made.
C23_Witness ==
  /\ task.state = "resolved"
  /\ task.thenThrew
  /\ task.calls = 1
  /\ call.op = "update"
  /\ call.sinceSettled = 2
  /\ ~geometries._ready

\* A bounding sphere all of whose numbers were read inside the buffer.
SphereRead(sphere) ==
  /\ defined(sphere)
  /\ defined(Get(sphere).radius)
  /\ \A axis \in 1..3 : defined(Get(sphere).center[axis])

\* A batched-index record all of whose numbers were read inside the buffer.
BatchRead(batch) ==
  /\ defined(batch)
  /\ defined(Get(batch).offset)
  /\ defined(Get(batch).count)
  /\ \A channel \in {"red", "green", "blue", "alpha"} :
       defined(Get(batch).color[channel])
  /\ \A k \in DOMAIN Get(batch).batchIds : defined(Get(batch).batchIds[k])

\* C28 as stated: a result whose counts imply a read past the end of the
\* packed buffer is refused, so no primitive is ever constructed with a
\* bounding volume or a batched-index record made of absent values.
C28_PastEndFails ==
  defined(primitive.options) =>
    /\ \A i \in DOMAIN Get(Get(primitive.options).boundingVolumes) :
         SphereRead(Get(Get(primitive.options).boundingVolumes)[i])
    /\ \A j \in DOMAIN Get(Get(primitive.options).batchedIndices) :
         BatchRead(Get(Get(primitive.options).batchedIndices)[j])

\* ------------------------------------------------------ composite claims
\* The intersections the inner contents reported to the last pick.
ReportedHits == {Get(ccall.hits[i]) : i \in {k \in DOMAIN ccall.hits : defined(ccall.hits[k])}}

\* The reported intersections nearest to the ray origin.
NearestHits ==
  {point \in ReportedHits :
     \A other \in ReportedHits :
       distance(PickRay.origin, point) <= distance(PickRay.origin, other)}

\* C8: pick on a ready composite returns the reported intersection nearest to
\* the ray origin, and returns undefined when no inner content reports one.
C8_PickNearest ==
  (ccall.op = "pick" /\ ccall.wasReady) =>
     IF ReportedHits = {} THEN ~ccall.defined
     ELSE ccall.defined /\ defined(ccall.value) /\ Get(ccall.value) \in NearestHits

\* C9: pick on a composite whose ready flag is false returns undefined and
\* calls pick on no inner content.
C9_PickNotReady ==
  (ccall.op = "pick" /\ ccall.outcome = "returned" /\ ~ccall.wasReady) =>
     (~ccall.defined /\ ccall.childCalls = <<>>)

\* C9 witness: pick was called on a composite that is not ready and has an
\* inner content that would report an intersection.
C9_Witness ==
  /\ ccall.op = "pick"
  /\ ccall.outcome = "returned"
  /\ ~ccall.wasReady
  /\ ReportedHits # {}

\* C10: the ready flag of the composite becomes true in the first update call
\* that returns with every inner content ready, changes in no other step, and
\* stays true whatever the inner contents report later.  (ccall is the call
\* made in the step, so a step that ends with an update record is an update
\* call.)
C10_ReadyCached ==
  [][composite'._ready <=>
       \/ composite._ready
       \/ /\ ccall'.op = "update"
          /\ ccall'.outcome = "returned"
          /\ \A i \in 1..Len(contents') : contents'[i].ready]_vars

\* C10 witness: after an update call the composite is still ready although
\* an inner content is no longer ready.
C10_Witness ==
  /\ composite._ready
  /\ ccall.op = "update"
  /\ ccall.wasReady
  /\ \E i \in 1..Len(contents) : ~contents[i].ready

C16_DestroyCascades ==
  /\ (ccall.op = "destroy" /\ ccall.outcome = "returned")
     => /\ ccall.childCalls = [k \in 1..Len(contents) |-> k]
        /\ compositeIsDestroyed(composite)
  /\ compositeIsDestroyed(composite)
     => \A i \in 1..Len(contents) : contents[i].destroyed
  /\ ~compositeIsDestroyed(composite)
     => \A i \in 1..Len(contents) : ~contents[i].destroyed

\* C16 witness: destroy was called on a composite that never became ready,
\* with two inner contents of which the first is not ready.
C16_Witness ==
  /\ ccall.op = "destroy"
  /\ ccall.outcome = "returned"
  /\ ~composite._ready
  /\ Len(contents) = 2
  /\ ~contents[1].ready
  /\ contents[2].ready

\* -------------------------------------------------------- decode claims
\* fromTileType was called and its loop called a factory for every inner
\* tile, each of which returned.
EveryFactoryReturned ==
  /\ decode.state # "idle"
  /\ decode.input.version = 1
  /\ Len(decode.promises) = Len(decode.input.tiles)

\* The inner tiles (counted from 0) whose type has no factory.
UnknownTiles ==
  {k \in 0..(Len(decode.input.tiles) - 1) :
     decode.input.tiles[k + 1].tileType \notin Factories}

\* The inner tile whose promise was rejected first.
FirstRejected ==
  decode.order[
    CHOOSE k \in 1..Len(decode.order) :
      /\ decode.promises[decode.order[k] + 1] = "rejected"
      /\ \A j \in 1..(k - 1) : decode.promises[decode.order[j] + 1] # "rejected"]

\* C12: when every inner tile has a registered type and every factory promise
\* is fulfilled, fromTileType is fulfilled with a composite of as many inner
\* contents as inner tiles, and inner content i is the content of the factory
\* called for inner tile i, in whatever order the promises were fulfilled.
C12_ContentsInContainerOrder ==
  (/\ EveryFactoryReturned
   /\ \A i \in 1..Len(decode.promises) : decode.promises[i] = "fulfilled")
  => /\ decode.state = "fulfilled"
     /\ defined(decode.content)
     /\ Len(Get(decode.content)._contents) = Len(decode.input.tiles)
     /\ \A i \in 1..Len(decode.input.tiles) :
          /\ Get(decode.content)._contents[i] = decode.invoked[i]
          /\ decode.invoked[i].index = i - 1
          /\ decode.invoked[i].tileType = decode.input.tiles[i].tileType

\* C12 witness: a composite of two inner tiles was decoded, the promise of
\* the second fulfilled before the promise of the first.
C12_Witness ==
  /\ decode.state = "fulfilled"
  /\ Len(decode.input.tiles) = 2
  /\ decode.order = <<1, 0>>

\* C13: fromTileType on a header whose version is not 1 is rejected with an
\* error naming that version, and no factory is called.
C13_VersionRefused ==
  (decode.state # "idle" /\ decode.input.version # 1)
  => /\ decode.state = "rejected"
     /\ decode.reason = Some(RuntimeErrorVersion(decode.input.version))
     /\ decode.invoked = <<>>
     /\ ~defined(decode.content)

\* C13 witness: a composite of version 2 with inner tiles was refused.
C13_Witness ==
  /\ decode.state = "rejected"
  /\ decode.input.version = 2
  /\ Len(decode.input.tiles) >= 1

\* C14: when inner tile k is the first whose type has no factory, no factory
\* is called for inner tile k or a later one, no composite is made, and
\* (unless a factory called before raised) fromTileType is rejected with an
\* error naming the type of inner tile k.
C14_UnknownTypeAborts ==
  (decode.state # "idle" /\ decode.input.version = 1 /\ UnknownTiles # {})
  => \E k \in UnknownTiles :
       /\ \A other \in UnknownTiles : k <= other
       /\ \A i \in 1..Len(decode.invoked) : decode.invoked[i].index < k
       /\ decode.state = "rejected"
       /\ ~defined(decode.content)
       /\ (Len(decode.promises) = Len(decode.invoked)
           => decode.reason =
                Some(RuntimeErrorTileType(decode.input.tiles[k + 1].tileType)))

\* C14 witness: the second inner tile has an unknown type; the factory of the
\* first was called and its promise was fulfilled after the decode failed.
C14_Witness ==
  /\ decode.state = "rejected"
  /\ decode.input.version = 1
  /\ UnknownTiles = {1}
  /\ Len(decode.invoked) = 1
  /\ decode.promises = <<"fulfilled">>
  /\ decode.order = <<0>>

\* C15: when every factory returned and a promise is rejected, fromTileType
\* is rejected with the reason of the promise rejected first and no composite
\* is made, whatever the other promises do; and a composite is made only when
\* the promises of all inner tiles are fulfilled.
C15_AllOrNothing ==
  /\ (EveryFactoryReturned
      /\ \E i \in 1..Len(decode.promises) : decode.promises[i] = "rejected")
     => /\ decode.state = "rejected"
        /\ decode.reason = Some(FactoryError(FirstRejected))
        /\ ~defined(decode.content)
  /\ defined(decode.content)
     => /\ Len(decode.promises) = Len(decode.input.tiles)
        /\ \A i \in 1..Len(decode.promises) : decode.promises[i] = "fulfilled"

\* C15 witness: of two inner tiles the promise of one was rejected and the
\* promise of the other fulfilled.
C15_Witness ==
  /\ EveryFactoryReturned
  /\ Len(decode.promises) = 2
  /\ \E i \in 1..2 : decode.promises[i] = "rejected"
  /\ \E i \in 1..2 : decode.promises[i] = "fulfilled"

\* ------------------------------------------------------- tileset claims
\* C17: once destroy() has returned on a vector geometry or on a composite,
\* every later call of one of its functions (update, pick, applyStyle,
\* applyDebugSettings, createFeatures, updateCommands, destroy) raises a
\* DeveloperError, and no step changes the content, its primitive or its
\* inner contents any more.
C17_DestroyedRaises ==
  [][/\ geometries.destroyed
        => /\ call' # call => call'.outcome = "DeveloperError"
           /\ UNCHANGED <<options, geometries, primitive>>
     /\ composite.destroyed
        => /\ ccall' # ccall => ccall'.outcome = "DeveloperError"
           /\ UNCHANGED <<composite, contents>>]_vars

\* C17 witness: both contents are destroyed; applyStyle was then called on the
\* vector geometry and pick on the composite, and both raised.
C17_Witness ==
  /\ geometries.destroyed
  /\ call.op = "applyStyle"
  /\ call.outcome = "DeveloperError"
  /\ composite.destroyed
  /\ ccall.op = "pick"
  /\ ccall.outcome = "DeveloperError"

\* ------------------------------------- claims on composite properties
\* C24: whatever its inner contents report and whether it is ready or not,
\* a composite reports 0 for featuresLength, pointsLength, trianglesLength,
\* geometryByteLength, texturesByteLength and batchTableByteLength and no
\* batchTable; getFeature(batchId) returns nothing and hasProperty(batchId,
\* name) returns false whenever they return.
C24_NothingAggregated ==
  /\ ccall.op = "read" =>
       ccall.read = Some([featuresLength |-> 0, pointsLength |-> 0,
                          trianglesLength |-> 0, geometryByteLength |-> 0,
                          texturesByteLength |-> 0, batchTableByteLength |-> 0,
                          batchTable |-> Undefined])
  /\ (ccall.op = "hasProperty" /\ ccall.outcome = "returned") =>
       ccall.read = Some([hasProperty |-> FALSE])
  /\ (ccall.op = "getFeature" /\ ccall.outcome = "returned") =>
       ccall.read = Some([getFeature |-> Undefined])

\* C24 witness: the properties of a ready composite were read while both of
\* its inner contents report features and a batch table.
C24_Witness ==
  /\ ccall.op = "read"
  /\ composite._ready
  /\ Len(contents) = 2
  /\ \A i \in 1..2 : /\ contents[i].reports.featuresLength > 0
                     /\ defined(contents[i].reports.batchTable)

\* The calls a fan-out of function f with arguments makes on n inner
\* contents: one on each, in the order of the contents.
OnEveryContent(n, f, arguments) ==
  [i \in 1..n |-> [index |-> i, f |-> f, arguments |-> arguments]]

\* C25: an applyStyle or applyDebugSettings call on a composite calls the
\* function of the same name, with the arguments of the call, on every inner
\* content once and in order, whether the composite and the inner contents
\* are ready or not, and returns no value.
C25_ApplyOnEveryContent ==
  /\ (ccall.op = "applyStyle" /\ ccall.outcome = "returned") =>
       /\ ccall.childCalls =
            OnEveryContent(Len(contents), "applyStyle", <<"style">>)
       /\ ~ccall.defined
  /\ (ccall.op = "applyDebugSettings" /\ ccall.outcome = "returned") =>
       /\ ccall.childCalls =
            OnEveryContent(Len(contents), "applyDebugSettings",
                           <<"enabled", "color">>)
       /\ ~ccall.defined

\* C25 witness: applyStyle was called on a composite that is not ready, with
\* a first inner content that is ready and a second that is not.
C25_Witness ==
  /\ ccall.op = "applyStyle"
  /\ ccall.outcome = "returned"
  /\ ~composite._ready
  /\ Len(contents) = 2
  /\ contents[1].ready
  /\ ~contents[2].ready
  /\ Len(ccall.childCalls) = 2

\* The composite and every inner content hold value as field (of the
\* composite) and as property (of the inner contents) in the next state.
AllHold(field, property, value) ==
  /\ composite'[field] = value
  /\ \A i \in 1..Len(contents') : contents'[i][property] = value

\* No step but an assignment changes what is held.
Kept(field, property) ==
  /\ composite'[field] = composite[field]
  /\ Len(contents') = Len(contents)
  /\ \A i \in 1..Len(contents) : contents'[i][property] = contents[i][property]

\* C26: an assignment of metadata (or group) on a composite stores the value
\* on the composite and on every inner content and leaves the other of the
\* two alone, and no other step changes what they hold: after any sequence of
\* assignments the composite and every inner content hold the value assigned
\* last.
C26_LastAssignedEverywhere ==
  [][/\ IF ccall'.op = "metadata"
          THEN AllHold("_metadata", "metadata", Get(ccall'.assigned))
        ELSE Kept("_metadata", "metadata")
     /\ IF ccall'.op = "group"
          THEN AllHold("_group", "group", Get(ccall'.assigned))
        ELSE Kept("_group", "group")]_vars

\* C26 witness: metadata was assigned on a composite of two inner contents
\* that held a metadata of their own and a group assigned before, and all
\* three hold the value assigned.
C26_Witness ==
  /\ ccall.op = "metadata"
  /\ ccall.assigned = Some(Some("metadata2"))
  /\ Len(contents) = 2
  /\ composite._metadata = Some("metadata2")
  /\ \A i \in 1..2 : contents[i].metadata = Some("metadata2")
  /\ composite._group = Some("group1")
  /\ \A i \in 1..2 : contents[i].group = Some("group1")

\* --------------------------------------- claims on nested resources
\* The composite path of a node: its indices from the outermost composite
\* down, in decimal, joined by underscores.
RECURSIVE CompositePath(_)
CompositePath(node) ==
  IF Len(node) = 1 THEN ToString(node[1])
  ELSE CompositePath(SubSeq(node, 1, Len(node) - 1))
       \o "_" \o ToString(node[Len(node)])

\* C27: the resource of an inner tile carries as compositeIndex the indices
\* from the outermost composite down to it joined by underscores ("i" under
\* a resource with no compositeIndex, "<parent>_i" under one that has it),
\* and two different inner tiles of the tree never carry the same one.
C27_CompositePathsDiffer ==
  /\ \A k \in 1..2 :
       resources[k].node # <<>> =>
         resources[k].resource.compositeIndex =
           Some(CompositePath(resources[k].node))
  /\ (resources[1].node # resources[2].node) =>
       resources[1].resource.compositeIndex
         # resources[2].resource.compositeIndex

\* C27 witness: inner tile 1 of inner tile 0 of the outermost composite, and
\* inner tile 1 of the outermost composite itself.
C27_Witness ==
  /\ resources[1].node = <<0, 1>>
  /\ resources[1].resource.compositeIndex = Some("0_1")
  /\ resources[2].node = <<1>>
  /\ resources[2].resource.compositeIndex = Some("1")

\* ------------------------------------ claims on PositionPropertyArray
\* The property is an item of the array stored.
InArray(property, a) ==
  /\ defined(a._value)
  /\ \E i \in DOMAIN Get(a._value) : Get(a._value)[i] = Some(property)

\* C29: the array raises its definitionChanged at every setValue call (so at
\* every call with data different from the current value), and whenever a
\* property that is an item of the array at that moment raises its own
\* definitionChanged.
C29_DefinitionChangedRaised ==
  [][/\ propertyArray'.call.op = "setValue" => propertyArray'.raised >= 1
     /\ (/\ propertyArray'.call.op = "definitionChanged"
         /\ InArray(propertyArray'.call.property, propertyArray.array))
        => propertyArray'.raised >= 1]_vars

\* C29 witness: the array was replaced by setValue, and then a property of
\* the new array raised its definitionChanged and the array raised its own.
C29_Witness ==
  /\ propertyArray.call.op = "definitionChanged"
  /\ propertyArray.call.property = 2
  /\ propertyArray.array._value = Some(<<Some(2), Undefined>>)
  /\ propertyArray.raised = 1

\* C30: isConstant returns true exactly when the value given to the last
\* setValue call (or to the constructor) is undefined, or every property in
\* that array is constant.
C30_IsConstant ==
  propertyArray.call.op = "isConstant" =>
    (propertyArray.call.returned <=>
       \/ ~defined(propertyArray.supplied)
       \/ \A i \in DOMAIN Get(propertyArray.supplied) :
            defined(Get(propertyArray.supplied)[i]) =>
              propertyArray.constant[Get(Get(propertyArray.supplied)[i])])

\* C30 witness: isConstant returned false for an array whose first property
\* is constant and whose second is not.
C30_Witness ==
  /\ propertyArray.call.op = "isConstant"
  /\ ~propertyArray.call.returned
  /\ propertyArray.supplied = Some(<<Some(1), Some(2)>>)
  /\ propertyArray.constant[1]
  /\ ~propertyArray.constant[2]

\* ------------------------------------------- claims on the decode loop
\* The byte lengths the inner tiles before inner tile i (counted from 0)
\* declare, added up.
RECURSIVE DeclaredBefore(_, _)
DeclaredBefore(tiles, i) ==
  IF i = 0 THEN 0
  ELSE tiles[i].byteLength + DeclaredBefore(tiles, i - 1)

\* The byteOffset fromTileType was called with (0 when it was given none).
StartOffset ==
  IF defined(decode.input.byteOffset) THEN Get(decode.input.byteOffset) ELSE 0

\* C31: the factory of inner tile i is called with the byteOffset the
\* composite starts at, plus 16, plus the byte lengths that inner tiles
\* 0..i-1 declare in their own headers; the byteLength field of the header of
\* the composite, right or wrong, changes no offset.
C31_ChildByteOffsets ==
  \A k \in 1..Len(decode.invoked) :
    decode.invoked[k].byteOffset =
      StartOffset + 16 + DeclaredBefore(decode.input.tiles,
                                        decode.invoked[k].index)

\* C31 witness: a composite at byteOffset 8 whose header declares a byteLength
\* of 0 had the factories of two inner tiles called, the first tile declaring
\* 16 bytes.
C31_Witness ==
  /\ Len(decode.invoked) = 2
  /\ decode.input.byteOffset = Some(8)
  /\ decode.input.byteLength = 0
  /\ decode.input.tiles[1].byteLength = 16
  /\ decode.invoked[2].byteOffset = 40

\* C32: when fromTileType reaches its await, the factory of every inner tile
\* has been called, in container order, whether the promises the earlier
\* factories returned are settled or not; no factory is called afterwards,
\* when a promise settles.
C32_FactoriesCalledBeforeAwait ==
  [][/\ (decode.state = "idle" /\ decode'.state \in {"awaiting", "fulfilled"})
        => /\ Len(decode'.invoked) = Len(decode.input.tiles)
           /\ \A k \in 1..Len(decode'.invoked) :
                /\ decode'.invoked[k].index = k - 1
                /\ decode'.invoked[k].tileType
                     = decode.input.tiles[k].tileType
     /\ decode.state # "idle" => decode'.invoked = decode.invoked]_vars

\* C32 witness: fromTileType is at its await, the factories of both inner
\* tiles were called, and the promise of the first is still pending.
C32_Witness ==
  /\ decode.state = "awaiting"
  /\ Len(decode.invoked) = 2
  /\ decode.invoked[2].index = 1
  /\ decode.promises[1] = "pending"

\* ------------------------------------- claims on the packed buffers
\* C33: the buffer packBuffer makes for the worker has 19 elements: elements
\* 0..2 are the x, y and z of the centre of the content and elements 3..18
\* the 16 components of its model matrix in the order they are stored, so
\* both are read back from the buffer unchanged.
C33_PackedCenterThenMatrix ==
  defined(task.parameters) =>
    /\ Len(Get(task.parameters).packedBuffer) = 19
    /\ SubSeq(Get(task.parameters).packedBuffer, 1, 3)
         = Get(Vector3DTileGeometry(options)._center)
    /\ SubSeq(Get(task.parameters).packedBuffer, 4, 19)
         = Get(options.modelMatrix)

\* C33 witness: a content constructed with a centre of its own submitted its
\* packed buffer to the worker.
C33_Witness ==
  /\ defined(task.parameters)
  /\ options.center = Some(<<1, 2, 3>>)
  /\ Get(task.parameters).packedBuffer[3] = 3
  /\ Get(task.parameters).packedBuffer[4] = 11
  /\ Get(task.parameters).packedBuffer[19] = 44

\* The well-formed results of the worker, by what they say: the index width,
\* the bounding spheres, and the batched-index records.
WellFormedResults ==
  { [indexWidth |-> 2,
     spheres |-> << [center |-> <<0, 0, 0>>, radius |-> 5] >>,
     batches |-> << [color |-> <<1, 0, 0, 1>>, offset |-> 0, count |-> 3,
                     batchIds |-> <<0>>] >>],
    [indexWidth |-> 4,
     spheres |-> <<>>,
     batches |-> << [color |-> <<1, 0, 0, 1>>, offset |-> 0, count |-> 3,
                     batchIds |-> <<0, 1>>],
                    [color |-> <<0, 1, 0, 1>>, offset |-> 3, count |-> 3,
                     batchIds |-> <<1>>] >>] }

\* The numbers of the bounding spheres, in buffer order.
RECURSIVE PackedSpheres(_)
PackedSpheres(spheres) ==
  IF spheres = <<>> THEN <<>>
  ELSE Head(spheres).center \o <<Head(spheres).radius>>
       \o PackedSpheres(Tail(spheres))

\* The numbers of the batched-index records, in buffer order.
RECURSIVE PackedBatches(_)
PackedBatches(batches) ==
  IF batches = <<>> THEN <<>>
  ELSE Head(batches).color
       \o <<Head(batches).offset, Head(batches).count,
            Len(Head(batches).batchIds)>>
       \o Head(batches).batchIds
       \o PackedBatches(Tail(batches))

\* The packed buffer of a well-formed result.
Packed(w) ==
  <<w.indexWidth, Len(w.spheres)>> \o PackedSpheres(w.spheres)
  \o <<Len(w.batches)>> \o PackedBatches(w.batches)

\* C34: when the worker's packed buffer is well formed, unpackBuffer returns
\* the index width written first (the indices are viewed with that width),
\* and the primitive is constructed with as many bounding volumes as the
\* first count says and as many batched-index records as the second count
\* says, record j with the colour, index offset, index count and batch ids
\* of the j-th record of the buffer.
C34_UnpacksWellFormed ==
  (task.state = "resolved" /\ ~task.settledDestroyed) =>
    \A w \in WellFormedResults :
      Get(task.result).packedBuffer = Packed(w) =>
        /\ ~task.thenThrew
        /\ defined(primitive.options)
        /\ Get(Get(primitive.options).indices).type
             = (IF w.indexWidth = 2 THEN "Uint16Array" ELSE "Uint32Array")
        /\ Get(Get(primitive.options).boundingVolumes)
             = [i \in 1..Len(w.spheres) |->
                  Some([center |-> [axis \in 1..3 |->
                                      Some(w.spheres[i].center[axis])],
                        radius |-> Some(w.spheres[i].radius)])]
        /\ Get(Get(primitive.options).batchedIndices)
             = [j \in 1..Len(w.batches) |->
                  Some([color |-> [red |-> Some(w.batches[j].color[1]),
                                   green |-> Some(w.batches[j].color[2]),
                                   blue |-> Some(w.batches[j].color[3]),
                                   alpha |-> Some(w.batches[j].color[4])],
                        offset |-> Some(w.batches[j].offset),
                        count |-> Some(w.batches[j].count),
                        batchIds |-> [k \in 1..Len(w.batches[j].batchIds) |->
                                        Some(w.batches[j].batchIds[k])]])]

\* C34 witness: the result with no bounding sphere and two batched-index
\* records was unpacked and the primitive constructed from it.
C34_Witness ==
  /\ task.state = "resolved"
  /\ ~task.settledDestroyed
  /\ \E w \in WellFormedResults :
       /\ Get(task.result).packedBuffer = Packed(w)
       /\ Len(w.batches) = 2
  /\ Len(Get(Get(primitive.options).batchedIndices)) = 2
  /\ geometries._ready

\* ------------------------------------------------ claims on the getters
\* C35: a content that is not destroyed is ready only while its primitive
\* exists, and the step that makes it ready is the one in which
\* finishPrimitive constructed the primitive; trianglesLength and
\* geometryByteLength return 0 whenever the primitive does not exist.
C35_ReadyNeedsPrimitive ==
  [][/\ (getReady(geometries') /\ ~isDestroyed(geometries'))
          => defined(geometries'._primitive)
     /\ (~getReady(geometries) /\ getReady(geometries'))
          => /\ primitive'.constructed = primitive.constructed + 1
             /\ defined(geometries'._primitive)
     /\ (/\ call' # call
         /\ call'.op \in {"trianglesLength", "geometryByteLength"}
         /\ ~defined(geometries._primitive))
          => call'.returned = Some(0)]_vars

\* C35 witness: trianglesLength was read as 0 while the worker had not
\* answered yet.
C35_Witness ==
  /\ call.op = "trianglesLength"
  /\ call.returned = Some(0)
  /\ task.state = "pending"
  /\ ~getReady(geometries)
  /\ ~defined(geometries._primitive)

\* ------------------------------------ claims on a failure while decoding
\* C36: when the fulfilment handler raises while it unpacks the result of a
\* content that is not destroyed, the error is stored, not left unhandled:
\* the first update call afterwards raises it, every later one returns, no
\* primitive is constructed and ready stays false, as after a rejection by
\* the worker.
C36_CallbackErrorStored ==
  (task.state = "resolved" /\ task.thenThrew /\ ~isDestroyed(geometries)) =>
     /\ ~task.unhandled
     /\ ~getReady(geometries)
     /\ ~defined(geometries._primitive)
     /\ primitive.constructed = 0
     /\ call.sinceSettled = 0 => geometries._error = Some("RangeError")
     /\ (call.op = "update" /\ call.sinceSettled = 1) =>
           (call.outcome = "RangeError" /\ ~defined(geometries._error))
     /\ (call.op = "update" /\ call.sinceSettled = 2) =>
           (call.outcome = "returned" /\ ~defined(geometries._error))

\* C36 witness: the fulfilment handler raised, and the next update call
\* raised the stored error.
C36_Witness ==
  /\ task.state = "resolved"
  /\ task.thenThrew
  /\ ~isDestroyed(geometries)
  /\ call.op = "update"
  /\ call.sinceSettled = 1
  /\ call.outcome = "RangeError"

\* ------------------------------------ claims on the composite ready flag
\* C37: a composite is not ready when it is constructed, whether its inner
\* contents are ready or not; its ready flag changes in update calls only;
\* and a composite with no inner content is ready after its first update
\* call.
C37_ReadyOnlyInUpdate ==
  /\ ~composite._ready
  /\ [][/\ composite'._ready # composite._ready
             => (ccall'.op = "update" /\ ccall'.outcome = "returned")
        /\ (ccall'.op = "update" /\ ccall'.outcome = "returned"
            /\ Len(contents) = 0)
             => composite'._ready]_vars

\* C37 witness: the first update call of a composite with no inner content
\* returned and left it ready.
C37_Witness ==
  /\ Len(contents) = 0
  /\ ccall.op = "update"
  /\ ccall.outcome = "returned"
  /\ ~ccall.wasReady
  /\ composite._ready

\* C38: when the update of an inner content raises during the update of the
\* composite, the call of the composite raises, the inner contents after
\* that one are not updated in the call, and the ready flag of the composite
\* is as it was before the call.
C38_ChildErrorPropagates ==
  [][(ccall'.op = "update" /\ ccall'.outcome = "threw") =>
       /\ ccall'.childCalls # <<>>
       /\ ccall'.childCalls = [k \in 1..Len(ccall'.childCalls) |-> k]
       /\ \A j \in (Len(ccall'.childCalls) + 1)..Len(contents) :
            contents'[j] = contents[j]
       /\ Len(contents') = Len(contents)
       /\ composite'._ready = composite._ready]_vars

\* C38 witness: the update of the first of two inner contents raised in an
\* update call of a composite that was not ready, while the second inner
\* content was ready.
C38_Witness ==
  /\ ccall.op = "update"
  /\ ccall.outcome = "threw"
  /\ ccall.childCalls = <<1>>
  /\ Len(contents) = 2
  /\ contents[2].ready
  /\ ~composite._ready

\* C39: after setValue has replaced the array, a property that was an item
\* of the array replaced and is not an item of the new one raises its
\* definitionChanged without the array raising its own; and when the caller
\* changes the array it passed to setValue, the items stored do not change.
C39_ReplacedArrayForgotten ==
  [][/\ (/\ propertyArray'.call.op = "definitionChanged"
         /\ propertyArray'.call.property \in propertyArray.before
         /\ ~InArray(propertyArray'.call.property, propertyArray.array))
        => propertyArray'.raised = 0
     /\ propertyArray'.call.op = "pop"
        => /\ propertyArray'.array._value = propertyArray.array._value
           /\ propertyArray'.array._value = propertyArray.supplied]_vars

\* C39 witness: setValue replaced an array holding property 1 by an array
\* without it, the caller then removed an item from the array it had passed,
\* and property 1 raised its definitionChanged: the array did not raise its
\* own and holds the items it was given.
C39_Witness ==
  /\ propertyArray.call.op = "definitionChanged"
  /\ propertyArray.call.property = 1
  /\ 1 \in propertyArray.before
  /\ ~InArray(1, propertyArray.array)
  /\ propertyArray.raised = 0
  /\ propertyArray.caller # propertyArray.supplied
  /\ propertyArray.array._value = propertyArray.supplied
  /\ defined(propertyArray.array._value)

\* The values of the items of an array that have one, in item order.
RECURSIVE DefinedValues(_, _)
DefinedValues(value, values) ==
  IF value = <<>> THEN <<>>
  ELSE (IF defined(Head(value)) /\ values[Get(Head(value))]
          THEN <<Get(Head(value))>>
        ELSE <<>>)
       \o DefinedValues(Tail(value), values)

\* C40 as stated: getValueInReferenceFrame returns undefined when no array is
\* stored, and otherwise returns an array of the values of the items that
\* have one, in item order, the items without a value left out, so that its
\* length is the number of values.
C40_DefinedValuesInOrder ==
  propertyArray.call.op = "getValueInReferenceFrame" =>
    /\ ~defined(propertyArray.call.threw)
    /\ IF defined(propertyArray.array._value)
         THEN /\ defined(propertyArray.call.got)
              /\ Get(propertyArray.call.got)
                   = DefinedValues(Get(propertyArray.array._value),
                                   propertyArray.call.values)
       ELSE ~defined(propertyArray.call.got)

====
